---- MODULE Spec2Model ----
(***************************************************************************)
(* Verification model of the freqtrade-news-ml signal stack:               *)
(*   - the three cached external signal generators (signals/*.py),         *)
(*   - the ML predictor's staleness policy (signals/ml_model.py),          *)
(*   - the protection configuration of the strategies,                     *)
(*   - the indicator / entry / exit pass of the strategies.                *)
(* Each subsystem has its own specification over the shared variables; the *)
(* variables of the other subsystems stay at their initial values.         *)
(*                                                                         *)
(* Floating point scores are modelled in fixed point: a sub-score s in     *)
(* [-1, 1] is the integer 100*s, a weight w is the integer 100*w, so a     *)
(* combined score c is the integer 10000*c.                                *)
(***************************************************************************)
EXTENDS Integers, Sequences, FiniteSets, TLC

VARIABLES
    source,      \* which generator instance is exercised (its class)
    api_key,     \* NewsSentimentAnalyzer.api_key is set
    now,         \* time.time(), in seconds
    cache,       \* self.cache: cache_key -> final signal
    hist,        \* history: cache_key -> what the calls for that key did
    last,        \* history: what the most recent finished call did
    ncalls,      \* history: number of calls begun
    remote_ok,   \* history: some remote request so far was answered well-formed
    pc           \* concurrent callers: thread -> position inside get_signal

cacheVars == <<source, api_key, now, cache, hist, last, ncalls, remote_ok, pc>>

VARIABLES
    is_trained,     \* MLModel.is_trained
    last_training,  \* MLModel.last_training: None or the time of the last successful train
    rf_model,       \* MLModel.rf_model: 0 as constructed, 1 loaded from file, n + 1 fitted by the n-th train
    gb_model,       \* MLModel.gb_model, likewise
    scaler,         \* MLModel.scaler, likewise
    train_count,    \* history: number of train calls
    prediction,     \* history: the last result of predict and the call's inputs
    ml_op           \* history: the last operation on the MLModel, "train_failed"
                    \* for a train that returned False

mlVars == <<is_trained, last_training, rf_model, gb_model, scaler, train_count,
            prediction, ml_op>>

VARIABLES
    variant,      \* the strategy whose protections are in force
    bar,          \* number of candles elapsed since the start
    open_trade,   \* pair -> a trade is open on the pair
    sl_exits,     \* the stoploss exits so far: <<[pair, bar]>>, oldest first
    since_close,  \* pair -> candles elapsed since the last trade close on the pair
    sl_elapsed,   \* scope -> candles elapsed since StoplossGuard last blocked the scope
    nclosed       \* history: number of trades closed

guardVars == <<variant, bar, open_trade, sl_exits, since_close, sl_elapsed, nclosed>>

VARIABLES
    strategy,   \* the strategy class whose populate_* methods are run
    feed,       \* the candle series that is fed, one candle at a time
    has_date,   \* the dataframe handed to the strategy carries a 'date' column
    candles,    \* the candles received so far
    wall_hour,  \* pd.Timestamp.now().hour
    frame       \* the dataframe returned by the last decision pass

frameVars == <<strategy, feed, has_date, candles, wall_hour, frame>>

VARIABLES
    call        \* the call of get_signal under way: its position, the cache key,
                \* the responses received, the seconds the request in flight has
                \* waited, the requests sent and timed out, the value returned

requestVars == <<call>>

VARIABLES
    trades,     \* profit_ratio of the closed trades of tradesv3.sqlite, by close_date
    db_exists,  \* whether user_data/tradesv3.sqlite exists
    bot_status, \* BotMonitor.bot_status
    alerts,     \* the alerts returned by the last check_alerts
    monitor_op  \* the last operation of the monitor

monitorVars == <<trades, db_exists, bot_status, alerts, monitor_op>>

vars == <<cacheVars, mlVars, guardVars, frameVars, requestVars, monitorVars>>

----------------------------------------------------------------------------
(* Bounds of the model *)

\* the clock advances in steps of Tick seconds up to MaxNow
Tick == 300
MaxNow == 1800
\* at most MaxCalls calls of get_signal are begun in one run
MaxCalls == 3
\* the MLModel's clock advances in steps of MLTick seconds up to MaxMLNow
MLTick == 21600
MaxMLNow == 194400
\* at most MaxTrain calls of MLModel.train are made in one run
MaxTrain == 2
\* candles elapse up to MaxBars, and at most MaxCloses trades are closed in one run
MaxBars == 32
MaxCloses == 1
\* at most MaxRows candles are fed to a strategy in one run
MaxRows == 28
\* the timeout of a request in flight is counted in steps of WaitTick seconds
WaitTick == 5

----------------------------------------------------------------------------
(* Program constants of the signal generators *)

Sources == {"bitquery", "helius", "news"}

BITQUERY_CACHE_TTL == 600
HELIUS_CACHE_TTL == 300
NEWS_CACHE_TTL == 1800

cache_ttl(src) ==
    CASE src = "bitquery" -> BITQUERY_CACHE_TTL
      [] src = "helius"   -> HELIUS_CACHE_TTL
      [] src = "news"     -> NEWS_CACHE_TTL

\* BitquerySignalGenerator thresholds, USD
large_flow_threshold == 500000
BITQUERY_DEX_VOLUME_THRESHOLD == 2000000
\* HeliusSignalGenerator threshold, USD
HELIUS_DEX_VOLUME_THRESHOLD == 1000000

\* discretization thresholds, in 1/10000 (bitquery, helius) and 1/100 (news)
BITQUERY_SIGNAL_THRESHOLD == 5000
HELIUS_SIGNAL_THRESHOLD == 6000
NEWS_SIGNAL_THRESHOLD == 30

----------------------------------------------------------------------------
(* Remote responses.  One response per remote sub-query:                   *)
(*   error     the request failed (network error, timeout, HTTP status)    *)
(*   bad_json  the body does not parse                                     *)
(*   bad_shape the body parses but has not the expected structure          *)
(*   ok        a well-formed payload; a and b are the two volumes the      *)
(*             analysis tallies from it (for news: a is 100 * the weighted *)
(*             polarity of the articles, b is unused)                      *)
(***************************************************************************)

FailureKinds == {"error", "bad_json", "bad_shape"}

Failure(kind) == [kind |-> kind, a |-> 0, b |-> 0]

Payload(a, b) == [kind |-> "ok", a |-> a, b |-> b]

VolumeResponses ==
    {Failure(k) : k \in FailureKinds}
        \cup {Payload(3000000, 0), Payload(0, 3000000), Payload(400000, 0)}

NewsResponses ==
    {Failure(k) : k \in FailureKinds}
        \cup {Payload(50, 0), Payload(0 - 50, 0), Payload(20, 0)}

\* the responses to the sub-queries of one call, in the order they are sent
Responses(src) ==
    CASE src = "bitquery" -> [1..4 -> VolumeResponses]
      [] src = "helius"   -> [1..3 -> VolumeResponses]
      [] src = "news"     -> [1..1 -> NewsResponses]

Failed(r) == r.kind \in FailureKinds

AllFailed(resp) == \A i \in DOMAIN resp : Failed(resp[i])

----------------------------------------------------------------------------
(* Sub-scores, 100 * the float the code returns *)

Min(x, y) == IF x < y THEN x ELSE y
Max(x, y) == IF x > y THEN x ELSE y

\* max(-1, min(1, signal))
Clamp(x) == Max(0 - 100, Min(100, x))

\* (a - b) / total
Imbalance(a, b) == ((a - b) * 100) \div (a + b)

\* BitquerySignalGenerator._analyze_inflow_outflow: a = inflow_score, b = outflow_score
bq_analyze_inflow_outflow(r) ==
    IF Failed(r) THEN 0
    ELSE IF r.a + r.b > large_flow_threshold THEN Clamp(Imbalance(r.a, r.b))
    ELSE 0

\* BitquerySignalGenerator._analyze_dex_activity: a = buy_volume, b = sell_volume
bq_analyze_dex_activity(r) ==
    IF Failed(r) THEN 0
    ELSE IF r.a + r.b > BITQUERY_DEX_VOLUME_THRESHOLD
         THEN Clamp((Imbalance(r.a, r.b) * 12) \div 10)
    ELSE 0

\* BitquerySignalGenerator._analyze_whale_accumulation: a = accumulation, b = distribution
bq_analyze_whale_accumulation(r) ==
    IF Failed(r) THEN 0
    ELSE IF r.a + r.b > 0 THEN Clamp(Imbalance(r.a, r.b))
    ELSE 0

\* BitquerySignalGenerator._analyze_exchange_flows: a = inflow_amount, b = outflow_amount
bq_analyze_exchange_flows(r) ==
    IF Failed(r) THEN 0
    ELSE IF r.a + r.b > large_flow_threshold THEN Clamp(Imbalance(r.b, r.a))
    ELSE 0

\* HeliusSignalGenerator._analyze_large_transactions: a = buy_volume, b = sell_volume
hl_analyze_large_transactions(r) ==
    IF Failed(r) THEN 0
    ELSE IF r.a + r.b > 0 THEN Clamp(Imbalance(r.a, r.b))
    ELSE 0

\* HeliusSignalGenerator._analyze_dex_activity: a = sol_buy_volume, b = sol_sell_volume
hl_analyze_dex_activity(r) ==
    IF Failed(r) THEN 0
    ELSE IF r.a + r.b > HELIUS_DEX_VOLUME_THRESHOLD
         THEN Clamp((Imbalance(r.a, r.b) * 15) \div 10)
    ELSE 0

\* a balance change taken from the response: a = balance gained, b = balance lost
hl_get_balance_change_Reported(r) == r.a - r.b

\* HeliusSignalGenerator._get_balance_change: "return 0" for every address
hl_get_balance_change(r) == 0

\* HeliusSignalGenerator._analyze_whale_movements: every balance change is 0,
\* so accumulation_score = distribution_score = 0 and total_activity = 0
hl_analyze_whale_movements(r) ==
    IF Failed(r) THEN 0
    ELSE LET balance_change == hl_get_balance_change(r)
             accumulation_score == IF balance_change > 0 THEN balance_change ELSE 0
             distribution_score == IF balance_change < 0 THEN 0 - balance_change ELSE 0
             total_activity == accumulation_score + distribution_score
         IN  IF total_activity > 0
             THEN Clamp(Imbalance(accumulation_score, distribution_score))
             ELSE 0

\* the discretization with the upper threshold included
Discretize_Inclusive(score, threshold) ==
    IF score >= threshold THEN 1
    ELSE IF score < 0 - threshold THEN 0 - 1
    ELSE 0

\* the volume up to which a sub-score of BitquerySignalGenerator is 0: the
\* sub-score is a ratio only "if total > threshold"; _analyze_whale_accumulation
\* tests "if total_activity > 0"
bq_materiality_threshold(i) ==
    CASE i = 1 -> large_flow_threshold
      [] i = 2 -> BITQUERY_DEX_VOLUME_THRESHOLD
      [] i = 3 -> 0
      [] i = 4 -> large_flow_threshold

\* two symmetric thresholds
Discretize(score, threshold) ==
    IF score > threshold THEN 1
    ELSE IF score < 0 - threshold THEN 0 - 1
    ELSE 0

----------------------------------------------------------------------------
(* The computation behind a cache miss.  The result is                     *)
(*   [raised |-> an exception reached get_signal's own handler,            *)
(*    value  |-> the discrete signal otherwise]                            *)
(***************************************************************************)

Computed(v) == [raised |-> FALSE, value |-> v]
Raised == [raised |-> TRUE, value |-> 0]

\* BitquerySignalGenerator.get_signal, lines 79-82: inflow_outflow_signal,
\* dex_activity_signal, whale_accumulation_signal, exchange_flows_signal
bq_sub_scores(resp) ==
    <<bq_analyze_inflow_outflow(resp[1]), bq_analyze_dex_activity(resp[2]),
      bq_analyze_whale_accumulation(resp[3]), bq_analyze_exchange_flows(resp[4])>>

\* the weights of the four sub-scores, 100 * the float
bq_weights == <<30, 25, 25, 20>>

\* combined_signal, lines 85-90
bq_combined_signal(s) ==
    s[1] * bq_weights[1] + s[2] * bq_weights[2] + s[3] * bq_weights[3] + s[4] * bq_weights[4]

\* BitquerySignalGenerator.get_signal, lines 79-99
bq_compute(resp) ==
    Computed(Discretize(bq_combined_signal(bq_sub_scores(resp)), BITQUERY_SIGNAL_THRESHOLD))

\* HeliusSignalGenerator.get_signal, lines 58-60: large_tx_signal,
\* dex_activity_signal, whale_movement_signal
hl_sub_scores(resp) ==
    <<hl_analyze_large_transactions(resp[1]), hl_analyze_dex_activity(resp[2]),
      hl_analyze_whale_movements(resp[3])>>

\* combined_signal, lines 63-67
hl_combined_signal(s) == s[1] * 40 + s[2] * 40 + s[3] * 20

\* HeliusSignalGenerator.get_signal, lines 58-76
hl_compute(resp) ==
    Computed(Discretize(hl_combined_signal(hl_sub_scores(resp)), HELIUS_SIGNAL_THRESHOLD))

\* NewsSentimentAnalyzer._get_news_from_api: a failed request or an unparseable
\* body gives []; otherwise data.get("articles", []) is returned as it is
news_get_news_from_api(r) ==
    IF r.kind \in {"error", "bad_json"} THEN [articles |-> "empty", score |-> 0]
    ELSE IF r.kind = "bad_shape" THEN [articles |-> "not_objects", score |-> 0]
    ELSE [articles |-> "ok", score |-> r.a]

\* NewsSentimentAnalyzer._get_news_from_rss: "return []"
news_get_news_from_rss(r) == [articles |-> "empty", score |-> 0]

\* NewsSentimentAnalyzer._get_recent_news
news_get_recent_news(key_set, r) ==
    IF key_set THEN news_get_news_from_api(r) ELSE news_get_news_from_rss(r)

\* NewsSentimentAnalyzer._analyze_sentiment has no handler of its own:
\* article.get(...) on an entry that is no dict raises
news_analyze_sentiment(news_data) ==
    IF news_data.articles = "empty" THEN Computed(0)
    ELSE IF news_data.articles = "not_objects" THEN Raised
    ELSE Computed(news_data.score)

\* NewsSentimentAnalyzer.get_sentiment_signal, lines 74-84
news_compute(key_set, resp) ==
    LET news_data == news_get_recent_news(key_set, resp[1])
        sentiment == news_analyze_sentiment(news_data)
    IN  IF sentiment.raised THEN Raised
        ELSE Computed(Discretize(sentiment.value, NEWS_SIGNAL_THRESHOLD))

Compute(src, key_set, resp) ==
    CASE src = "bitquery" -> bq_compute(resp)
      [] src = "helius"   -> hl_compute(resp)
      [] src = "news"     -> news_compute(key_set, resp)

\* the sub-scores a computation that does not raise combines; the news
\* analyzer has one, sentiment_score
SubScores(src, key_set, resp) ==
    CASE src = "bitquery" -> bq_sub_scores(resp)
      [] src = "helius"   -> hl_sub_scores(resp)
      [] src = "news"     -> <<news_analyze_sentiment(news_get_recent_news(key_set, resp[1])).value>>

\* the score that is compared with the thresholds
CombinedSignal(src, s) ==
    CASE src = "bitquery" -> bq_combined_signal(s)
      [] src = "helius"   -> hl_combined_signal(s)
      [] src = "news"     -> s[1]

\* the threshold of a generator, in the unit of its combined score
SignalThreshold(src) ==
    CASE src = "bitquery" -> BITQUERY_SIGNAL_THRESHOLD
      [] src = "helius"   -> HELIUS_SIGNAL_THRESHOLD
      [] src = "news"     -> NEWS_SIGNAL_THRESHOLD

\* whether the call sends a remote request at all
SendsRequests(src, key_set) == src # "news" \/ key_set

\* the distinct things a computation can do, over all responses:
\* [out |-> result, all_failed |-> every request failed, some_ok |-> some request succeeded]
ComputeOutcomes ==
    [src \in Sources |-> [key_set \in BOOLEAN |->
        {[out |-> Compute(src, key_set, resp),
          all_failed |-> SendsRequests(src, key_set) /\ AllFailed(resp),
          some_ok |-> SendsRequests(src, key_set) /\ ~AllFailed(resp)]
            : resp \in Responses(src)}]]

----------------------------------------------------------------------------
(* Cache keys *)

Pairs(src) ==
    IF src = "helius" THEN {"SOL/USDT:USDT"}
    ELSE {"BTC/USDT:USDT", "ETH/USDT:USDT", "BTC_USDT"}

\* BitquerySignalGenerator._extract_base_currency: split on '/', else on '_'
bq_extract_base_currency(trading_pair) ==
    CASE trading_pair = "BTC/USDT:USDT" -> "BTC"
      [] trading_pair = "ETH/USDT:USDT" -> "ETH"
      [] trading_pair = "BTC_USDT"      -> "BTC"
      [] OTHER                          -> trading_pair

\* NewsSentimentAnalyzer._extract_base_currency: split('/')[0].split(':')[0]
news_extract_base_currency(trading_pair) ==
    CASE trading_pair = "BTC/USDT:USDT" -> "BTC"
      [] trading_pair = "ETH/USDT:USDT" -> "ETH"
      [] OTHER                          -> trading_pair

\* the asset a call is about; HeliusSignalGenerator.get_signal takes no pair
Asset(src, trading_pair) ==
    CASE src = "bitquery" -> bq_extract_base_currency(trading_pair)
      [] src = "helius"   -> "SOL"
      [] src = "news"     -> news_extract_base_currency(trading_pair)

\* bucket_id = floor(now / cache_ttl)
Bucket(src, t) == t \div cache_ttl(src)

\* cache_key = f"..._{base_currency}_{int(time.time() // self.cache_ttl)}"
CacheKey_PerSecond(src, trading_pair, t) == <<Asset(src, trading_pair), t>>
CacheKey_NoBucket(src, trading_pair, t) == <<Asset(src, trading_pair), 0>>
CacheKey(src, trading_pair, t) == <<Asset(src, trading_pair), t \div cache_ttl(src)>>

\* the (asset, bucket) a call made at time t belongs to
Slot(src, trading_pair, t) == <<Asset(src, trading_pair), Bucket(src, t)>>

----------------------------------------------------------------------------
(* History bookkeeping *)

\* computed_at: time.time() of the call that wrote the cache entry, -1 while there is none
NoHist == [calls |-> 0, computed |-> 0, completed |-> 0, returned |-> {}, served |-> {},
           computed_at |-> 0 - 1]

HistOf(slot) == IF slot \in DOMAIN hist THEN hist[slot] ELSE NoHist

SetHist(slot, rec) ==
    [k \in DOMAIN hist \cup {slot} |-> IF k = slot THEN rec ELSE hist[k]]

NoCall == [slot |-> <<"-", 0>>, hit |-> FALSE, all_failed |-> FALSE, raised |-> FALSE,
           wrote |-> FALSE, ret |-> 0, escaped |-> FALSE]

Threads == {"t1", "t2"}

Idle == [at |-> "idle", key |-> <<"-", 0>>, slot |-> <<"-", 0>>]

\* "except Exception as e: ... return 0" around the body of get_signal
Handler_Reraise(out) ==
    IF out.raised THEN [ret |-> 0, escaped |-> TRUE]
    ELSE [ret |-> out.value, escaped |-> FALSE]
Handler(out) ==
    IF out.raised THEN [ret |-> 0, escaped |-> FALSE]
    ELSE [ret |-> out.value, escaped |-> FALSE]

----------------------------------------------------------------------------
(* Actions of the signal generators *)

CacheInit ==
    /\ source \in Sources
    /\ api_key \in (IF source = "news" THEN BOOLEAN ELSE {TRUE})
    /\ now = 0
    /\ cache = [k \in {} |-> 0]
    /\ hist = [k \in {} |-> NoHist]
    /\ last = NoCall
    /\ ncalls = 0
    /\ remote_ok = FALSE
    /\ pc = [t \in Threads |-> Idle]

\* "if cache_key in self.cache: return self.cache[cache_key]"
ReturnCached(key, slot) ==
    LET h == HistOf(slot)
        v == cache[key]
    IN  /\ hist' = SetHist(slot, [h EXCEPT !.calls = @ + 1,
                                           !.returned = @ \cup {v},
                                           !.served = @ \cup {v}])
        /\ last' = [NoCall EXCEPT !.slot = slot, !.hit = TRUE, !.ret = v]
        /\ UNCHANGED <<cache, remote_ok>>

\* the sub-queries, the discretization, the cache write and the return
ComputeAndStore(key, slot, o, begun) ==
    LET h == HistOf(slot)
        r == Handler(o.out)
        wrote == ~o.out.raised
    IN  /\ cache' = IF wrote
                    THEN [k \in DOMAIN cache \cup {key} |->
                             IF k = key THEN o.out.value ELSE cache[k]]
                    ELSE cache
        /\ hist' = SetHist(slot, [h EXCEPT !.calls = @ + begun,
                                           !.computed = @ + 1,
                                           !.completed = @ + (IF wrote THEN 1 ELSE 0),
                                           !.returned = @ \cup {r.ret},
                                           !.served = IF wrote THEN @ \cup {r.ret} ELSE @,
                                           !.computed_at = IF wrote THEN now ELSE @])
        /\ last' = [slot |-> slot, hit |-> FALSE, all_failed |-> o.all_failed,
                    raised |-> o.out.raised, wrote |-> wrote, ret |-> r.ret,
                    escaped |-> r.escaped]
        /\ remote_ok' = (remote_ok \/ o.some_ok)

\* one whole call of get_signal / get_sentiment_signal, no other call in between
GetSignal(trading_pair) ==
    /\ ncalls < MaxCalls
    /\ \A t \in Threads : pc[t].at = "idle"
    /\ ncalls' = ncalls + 1
    /\ LET key == CacheKey(source, trading_pair, now)
           slot == Slot(source, trading_pair, now)
       IN  \/ /\ key \in DOMAIN cache
              /\ ReturnCached(key, slot)
           \/ /\ key \notin DOMAIN cache
              /\ \E o \in ComputeOutcomes[source][api_key] :
                    ComputeAndStore(key, slot, o, 1)
    /\ UNCHANGED <<source, api_key, now, pc, mlVars, guardVars, frameVars, requestVars, monitorVars>>

\* a caller runs get_signal up to and including the cache check
Enter(t, trading_pair) ==
    /\ ncalls < MaxCalls
    /\ pc[t].at = "idle"
    /\ ncalls' = ncalls + 1
    /\ LET key == CacheKey(source, trading_pair, now)
           slot == Slot(source, trading_pair, now)
       IN  \/ /\ key \in DOMAIN cache
              /\ ReturnCached(key, slot)
              /\ pc' = pc
           \/ /\ key \notin DOMAIN cache
              /\ pc' = [pc EXCEPT ![t] = [at |-> "computing", key |-> key, slot |-> slot]]
              /\ hist' = SetHist(slot, [HistOf(slot) EXCEPT !.calls = @ + 1])
              /\ UNCHANGED <<cache, last, remote_ok>>
    /\ UNCHANGED <<source, api_key, now, mlVars, guardVars, frameVars, requestVars, monitorVars>>

\* the caller runs the rest of get_signal: sub-queries, cache write, return
Finish(t) ==
    /\ pc[t].at = "computing"
    /\ \E o \in ComputeOutcomes[source][api_key] :
          ComputeAndStore(pc[t].key, pc[t].slot, o, 0)
    /\ pc' = [pc EXCEPT ![t] = Idle]
    /\ UNCHANGED <<source, api_key, now, ncalls, mlVars, guardVars, frameVars, requestVars, monitorVars>>

\* time passes
AdvanceClock ==
    /\ now + Tick <= MaxNow
    /\ now' = now + Tick
    /\ UNCHANGED <<source, api_key, cache, hist, last, ncalls, remote_ok, pc, mlVars, guardVars, frameVars, requestVars, monitorVars>>

----------------------------------------------------------------------------
(* Claims about the cached signal generators *)

Slots == DOMAIN hist

\* C1 as stated: for every generator, the calls made for one asset within one
\* bucket run the sub-queries exactly once and all return the same value.
C1_OncePerBucket ==
    \A k \in Slots :
        hist[k].calls >= 1 =>
            /\ hist[k].computed = 1
            /\ Cardinality(hist[k].returned) = 1

\* C1 amended: within one (asset, bucket) at most one computation reaches the
\* cache write, and every call answered from that entry (the writing call
\* included) returns the same value; for Bitquery and Helius, where no
\* computation can raise into get_signal, the sub-queries run exactly once and
\* all calls return the same value.
C1_OncePerBucketAmended ==
    \A k \in Slots :
        hist[k].calls >= 1 =>
            /\ hist[k].completed <= 1
            /\ Cardinality(hist[k].served) <= 1
            /\ hist[k].computed >= 1
            /\ hist[k].completed = 0 => hist[k].computed = hist[k].calls
            /\ source # "news" =>
                  /\ hist[k].computed = 1
                  /\ Cardinality(hist[k].returned) = 1

\* three calls in one bucket, one computation, all returning the signal 1
C1_Witness ==
    \E k \in Slots :
        /\ hist[k].calls = 3
        /\ hist[k].computed = 1
        /\ hist[k].returned = {1}

\* C2: under concurrent callers of get_signal (Bitquery, Helius) the
\* computation runs at most once per (asset, bucket) and all callers get the
\* same value.
C2_SingleFlight ==
    source # "news" =>
        \A k \in Slots :
            /\ hist[k].computed <= 1
            /\ Cardinality(hist[k].returned) <= 1

\* C3: a call whose remote sub-queries all failed returns 0 and writes no
\* cache entry.
C3_FailureNotCached ==
    last.all_failed => (last.ret = 0 /\ ~last.wrote)

\* C4: as long as every remote request has failed or returned malformed data,
\* every call returns 0 and no exception leaves get_signal.
C4_NeutralOnFailure ==
    ~remote_ok => (last.ret = 0 /\ ~last.escaped)

\* the last of MaxCalls Bitquery calls in a run where every remote request
\* failed: it missed the cache and its four sub-queries all failed
C4_Witness ==
    /\ source = "bitquery"
    /\ ncalls = MaxCalls
    /\ ~remote_ok
    /\ ~last.hit
    /\ last.all_failed

----------------------------------------------------------------------------
(* MLModel (signals/ml_model.py) *)

\* last_training = None
None == 0 - 1

\* self.retrain_interval_hours
retrain_interval_hours == 24
SECONDS_PER_HOUR == 3600
\* self.prediction_threshold, in percent
prediction_threshold == 60

\* class probabilities of one classifier, P(up) in percent
Probabilities == {0, 40, 80}

\* what prepare_features / the scaler make of the frame given to predict
FeatureKinds == {"empty", "nan", "ok"}

\* where a train call ends
TrainOutcomes == {"no_features", "no_target", "too_few_rows", "split_fails",
                  "scaler_fails", "rf_fails", "gb_fails", "eval_fails", "ok"}

\* the train outcomes in which the step has been passed successfully
ScalerFitted == {"rf_fails", "gb_fails", "eval_fails", "ok"}
RfFitted == {"gb_fails", "eval_fails", "ok"}
GbFitted == {"eval_fails", "ok"}

NoPrediction == [called |-> FALSE, features |-> "empty", up2 |-> 0,
                 signal |-> 0, confidence |-> 0]

\* MLModel._should_retrain at time t:
\* (datetime.now() - self.last_training).total_seconds() / 3600 > self.retrain_interval_hours
should_retrain_AtInterval(t) ==
    IF last_training = None THEN TRUE
    ELSE t - last_training >= retrain_interval_hours * SECONDS_PER_HOUR
should_retrain(t) ==
    IF last_training = None THEN TRUE
    ELSE t - last_training > retrain_interval_hours * SECONDS_PER_HOUR

\* the ensemble with a probability equal to the threshold counted as confident
Ensemble_Inclusive(rf_up, gb_up) ==
    LET up2 == rf_up + gb_up
        down2 == (100 - rf_up) + (100 - gb_up)
    IN  IF up2 >= 2 * prediction_threshold THEN [signal |-> 1, confidence |-> up2]
        ELSE IF down2 >= 2 * prediction_threshold
             THEN [signal |-> 0 - 1, confidence |-> down2]
        ELSE [signal |-> 0, confidence |-> Max(up2, down2)]

\* lines 302-322 of MLModel.predict: up2 = 2 * prob_up in percent; the result
\* carries the confidence doubled as well
Ensemble(rf_up, gb_up) ==
    LET up2 == rf_up + gb_up
        down2 == (100 - rf_up) + (100 - gb_up)
    IN  IF up2 > 2 * prediction_threshold THEN [signal |-> 1, confidence |-> up2]
        ELSE IF down2 > 2 * prediction_threshold
             THEN [signal |-> 0 - 1, confidence |-> down2]
        ELSE [signal |-> 0, confidence |-> Max(up2, down2)]

Neutral == [signal |-> 0, confidence |-> 0]

\* MLModel.predict at time t
predict_NoStalenessCheck(t, features, rf_up, gb_up) ==
    IF ~is_trained THEN Neutral
    ELSE IF features = "empty" THEN Neutral
    ELSE IF features = "nan" THEN Neutral
    ELSE IF scaler = 0 \/ rf_model = 0 \/ gb_model = 0 THEN Neutral
    ELSE Ensemble(rf_up, gb_up)
predict(t, features, rf_up, gb_up) ==
    IF ~is_trained THEN Neutral
    ELSE IF should_retrain(t) THEN Neutral
    ELSE IF features = "empty" THEN Neutral
    ELSE IF features = "nan" THEN Neutral
    \* scaler.transform / predict_proba of an unfitted estimator raise NotFittedError,
    \* caught by "except Exception: return 0, 0.0"
    ELSE IF scaler = 0 \/ rf_model = 0 \/ gb_model = 0 THEN Neutral
    ELSE Ensemble(rf_up, gb_up)

\* the state __init__ leaves: _load_model found no file, a complete file, or a
\* file it failed on after replacing rf_model
MLInit ==
    /\ train_count = 0
    /\ prediction = NoPrediction
    /\ ml_op = "init"
    /\ \/ /\ is_trained = FALSE /\ last_training = None
          /\ rf_model \in {0, 1} /\ gb_model = 0 /\ scaler = 0
       \/ /\ is_trained = TRUE /\ last_training \in {None, 0}
          /\ rf_model = 1 /\ gb_model = 1 /\ scaler \in {0, 1}

\* the MLModel is not exercised
MLIdle ==
    /\ train_count = 0
    /\ prediction = NoPrediction
    /\ ml_op = "init"
    /\ is_trained = FALSE /\ last_training = None
    /\ rf_model = 0 /\ gb_model = 0 /\ scaler = 0

\* MLModel.train
Train(outcome) ==
    /\ train_count < MaxTrain
    /\ train_count' = train_count + 1
    /\ scaler' = IF outcome \in ScalerFitted THEN train_count + 2 ELSE scaler
    /\ rf_model' = IF outcome \in RfFitted THEN train_count + 2 ELSE rf_model
    /\ gb_model' = IF outcome \in GbFitted THEN train_count + 2 ELSE gb_model
    /\ is_trained' = IF outcome = "ok" THEN TRUE ELSE is_trained
    /\ last_training' = IF outcome = "ok" THEN now ELSE last_training
    /\ prediction' = NoPrediction
    /\ ml_op' = IF outcome = "ok" THEN "train" ELSE "train_failed"
    /\ UNCHANGED <<now, source, api_key, cache, hist, last, ncalls, remote_ok, pc>>
    /\ UNCHANGED <<guardVars, frameVars, requestVars, monitorVars>>

\* MLModel.predict
Predict(features, rf_up, gb_up) ==
    /\ LET r == predict(now, features, rf_up, gb_up)
       IN  prediction' = [called |-> TRUE, features |-> features,
                          up2 |-> rf_up + gb_up,
                          signal |-> r.signal, confidence |-> r.confidence]
    /\ ml_op' = "predict"
    /\ UNCHANGED <<is_trained, last_training, rf_model, gb_model, scaler, train_count>>
    /\ UNCHANGED <<now, source, api_key, cache, hist, last, ncalls, remote_ok, pc>>
    /\ UNCHANGED <<guardVars, frameVars, requestVars, monitorVars>>

\* datetime.now() advances
MLAdvanceClock ==
    /\ now + MLTick <= MaxMLNow
    /\ now' = now + MLTick
    /\ ml_op' = "tick"
    /\ prediction' = NoPrediction
    /\ UNCHANGED <<is_trained, last_training, rf_model, gb_model, scaler, train_count>>
    /\ UNCHANGED <<source, api_key, cache, hist, last, ncalls, remote_ok, pc>>
    /\ UNCHANGED <<guardVars, frameVars, requestVars, monitorVars>>

\* the signal generators are not exercised
CacheIdle ==
    /\ source = "bitquery"
    /\ api_key = TRUE
    /\ now = 0
    /\ cache = [k \in {} |-> 0]
    /\ hist = [k \in {} |-> NoHist]
    /\ last = NoCall
    /\ ncalls = 0
    /\ remote_ok = FALSE
    /\ pc = [t \in Threads |-> Idle]

MLNext ==
    \/ \E outcome \in TrainOutcomes : Train(outcome)
    \/ \E f \in FeatureKinds, rf_up \in Probabilities, gb_up \in Probabilities :
          Predict(f, rf_up, gb_up)
    \/ MLAdvanceClock

\* the model's estimators have all been fitted (by a load or a train)
Fitted == scaler # 0 /\ rf_model # 0 /\ gb_model # 0

\* the staleness rule as the specification states it
Stale(t) ==
    \/ last_training = None
    \/ t - last_training > 24 * 3600

\* C5: whenever the model is untrained or stale, predict returns direction 0
\* with confidence 0.0.
C5_NeutralIfUntrainedOrStale ==
    (prediction.called /\ (~is_trained \/ Stale(now)))
        => (prediction.signal = 0 /\ prediction.confidence = 0)

\* predict was asked on a fitted model whose training is more than 24 h old,
\* with valid features and both classifiers confident of "up"
C5_Witness ==
    /\ prediction.called
    /\ is_trained /\ Fitted
    /\ last_training # None /\ Stale(now)
    /\ prediction.features = "ok"
    /\ prediction.up2 > 2 * prediction_threshold
    /\ prediction.signal = 0

\* a trained, fitted model answers valid features with a confident direction
\* exactly when it is not stale
C6_StaleExactly ==
    (/\ prediction.called /\ is_trained /\ Fitted
     /\ prediction.features = "ok"
     /\ prediction.up2 > 2 * prediction_threshold)
        => (prediction.signal = 1 <=> ~Stale(now))

\* predict leaves is_trained and last_training alone; a stale predictor stays
\* stale as long as last_training is not replaced; a successful train at t
\* makes the predictor not stale at t
C6_Step ==
    /\ ml_op' = "predict" => (is_trained' = is_trained /\ last_training' = last_training)
    /\ (Stale(now) /\ last_training' = last_training) => Stale(now)'
    /\ last_training' # last_training => (last_training' = now /\ ~Stale(now)')

\* C6: the predictor is stale exactly when last_training is unset or
\* now - last_training > 24 h (strict): not stale up to and including t + 24 h
\* after a successful train at t, stale afterwards and until the next
\* successful train; predict never changes is_trained or last_training.
C6_Staleness ==
    /\ []C6_StaleExactly
    /\ [][C6_Step]_vars

\* predict answered "up" exactly 24 h after a successful train of this run
C6_Witness ==
    /\ train_count >= 1
    /\ last_training # None
    /\ now = last_training + retrain_interval_hours * SECONDS_PER_HOUR
    /\ prediction.called
    /\ prediction.signal = 1


----------------------------------------------------------------------------
(* Protections: the strategies' protections property, evaluated as the
   ProtectionGuard of the specification (section 4.6) *)

Variants == {"main", "planB", "NoProt"}

\* the strategy's protections property
Protections(v) ==
    CASE v = "main" ->
           << [method |-> "CooldownPeriod", stop_duration_candles |-> 5],
              [method |-> "StoplossGuard", lookback_period_candles |-> 288,
               stop_duration_candles |-> 30, only_per_pair |-> FALSE, trade_limit |-> 2],
              [method |-> "MaxDrawdown", lookback_period_candles |-> 288,
               stop_duration_candles |-> 60, max_allowed_drawdown |-> 800,
               only_per_pair |-> FALSE] >>
      [] v = "planB" ->
           << [method |-> "CooldownPeriod", stop_duration_candles |-> 5],
              [method |-> "StoplossGuard", lookback_period_candles |-> 144,
               trade_limit |-> 2, stop_duration_candles |-> 30, only_per_pair |-> TRUE],
              [method |-> "MaxDrawdown", lookback_period_candles |-> 288,
               trade_limit |-> 20, stop_duration_candles |-> 60,
               max_allowed_drawdown |-> 8] >>
      [] v = "NoProt" -> << >>

Configured(v, method) ==
    \E i \in 1..Len(Protections(v)) : Protections(v)[i].method = method

Protection(v, method) ==
    Protections(v)[CHOOSE i \in 1..Len(Protections(v)) : Protections(v)[i].method = method]

TradedPairs == {"BTC/USDT:USDT", "ETH/USDT:USDT"}
Global == "*"
Scopes == TradedPairs \cup {Global}

\* how a trade is closed
ExitReasons == {"stop_loss", "roi"}

\* the configured stop_duration_candles of CooldownPeriod and of StoplossGuard:
\* an elapsed-candle counter that has reached it has expired
COOLDOWN_CANDLES == 5
STOPLOSS_STOP_CANDLES == 30

\* age, at the start, of a stoploss exit that happened before the run
PriorAges == {130, 270}

\* the scope StoplossGuard counts in and blocks after a stoploss exit on pair p
StoplossScope(v, p) ==
    IF Protection(v, "StoplossGuard").only_per_pair THEN p ELSE Global

InScope(e, scope) == scope = Global \/ e.pair = scope

\* the stoploss exits of the scope inside the lookback window that ends at candle b
StoplossCount_NoWindow(v, exits, scope, b) ==
    Cardinality({i \in 1..Len(exits) : InScope(exits[i], scope)})
StoplossCount(v, exits, scope, b) ==
    Cardinality({i \in 1..Len(exits) :
        /\ InScope(exits[i], scope)
        /\ b - exits[i].bar <= Protection(v, "StoplossGuard").lookback_period_candles})

\* COOLDOWN: a trade was closed on the pair fewer than stop_duration_candles ago
CooldownBlocked_Never(p) == FALSE
CooldownBlocked(p) ==
    /\ Configured(variant, "CooldownPeriod")
    /\ since_close[p] < Protection(variant, "CooldownPeriod").stop_duration_candles

\* STOPLOSS_BLOCKED: the guard blocked the scope fewer than stop_duration_candles ago
StoplossBlocked(scope) ==
    /\ Configured(variant, "StoplossGuard")
    /\ sl_elapsed[scope] < Protection(variant, "StoplossGuard").stop_duration_candles

\* the union of the blocking reasons for entries on pair p
\* (MaxDrawdown needs more closed trades than MaxCloses allows: it never blocks here)
BlockReasons(p) ==
    (IF CooldownBlocked(p) THEN {"COOLDOWN"} ELSE {})
    \cup (IF StoplossBlocked(p) \/ StoplossBlocked(Global) THEN {"STOPLOSS_BLOCKED"} ELSE {})

GuardOpen(p) == BlockReasons(p) = {}

GuardInit ==
    /\ variant \in Variants
    /\ bar = 0
    /\ open_trade = [p \in TradedPairs |-> FALSE]
    /\ \/ sl_exits = << >>
       \/ /\ Configured(variant, "StoplossGuard")
          /\ \E a \in PriorAges : sl_exits = << [pair |-> "BTC/USDT:USDT", bar |-> 0 - a] >>
    /\ since_close = [p \in TradedPairs |-> COOLDOWN_CANDLES]
    /\ sl_elapsed = [s \in Scopes |-> STOPLOSS_STOP_CANDLES]
    /\ nclosed = 0

\* no strategy is run
GuardIdle ==
    /\ variant = "NoProt"
    /\ bar = 0
    /\ open_trade = [p \in TradedPairs |-> FALSE]
    /\ sl_exits = << >>
    /\ since_close = [p \in TradedPairs |-> COOLDOWN_CANDLES]
    /\ sl_elapsed = [s \in Scopes |-> STOPLOSS_STOP_CANDLES]
    /\ nclosed = 0

\* the strategy signals an entry on pair p: it is emitted only if the guard is OPEN
Entry(p) ==
    /\ ~open_trade[p]
    /\ GuardOpen(p)
    /\ open_trade' = [open_trade EXCEPT ![p] = TRUE]
    /\ UNCHANGED <<variant, bar, sl_exits, since_close, sl_elapsed, nclosed>>
    /\ UNCHANGED <<cacheVars, mlVars, frameVars, requestVars, monitorVars>>

\* the trade on pair p is closed; the guards are evaluated on the event
TradeClose(p, reason) ==
    /\ open_trade[p]
    /\ nclosed < MaxCloses
    /\ nclosed' = nclosed + 1
    /\ open_trade' = [open_trade EXCEPT ![p] = FALSE]
    /\ since_close' = [since_close EXCEPT ![p] = 0]
    /\ LET exits == IF reason = "stop_loss"
                    THEN Append(sl_exits, [pair |-> p, bar |-> bar])
                    ELSE sl_exits
       IN  /\ sl_exits' = exits
           /\ IF /\ reason = "stop_loss"
                 /\ Configured(variant, "StoplossGuard")
                 /\ StoplossCount(variant, exits, StoplossScope(variant, p), bar)
                       >= Protection(variant, "StoplossGuard").trade_limit
              THEN sl_elapsed' = [sl_elapsed EXCEPT ![StoplossScope(variant, p)] = 0]
              ELSE UNCHANGED sl_elapsed
    /\ UNCHANGED <<variant, bar>>
    /\ UNCHANGED <<cacheVars, mlVars, frameVars, requestVars, monitorVars>>

\* a candle elapses
NewBar ==
    /\ bar < MaxBars
    /\ bar' = bar + 1
    /\ since_close' = [p \in TradedPairs |-> Min(since_close[p] + 1, COOLDOWN_CANDLES)]
    /\ sl_elapsed' = [s \in Scopes |-> Min(sl_elapsed[s] + 1, STOPLOSS_STOP_CANDLES)]
    /\ UNCHANGED <<variant, open_trade, sl_exits, nclosed>>
    /\ UNCHANGED <<cacheVars, mlVars, frameVars, requestVars, monitorVars>>

GuardNext ==
    \/ \E p \in TradedPairs : Entry(p)
    \/ \E p \in TradedPairs, reason \in ExitReasons : TradeClose(p, reason)
    \/ NewBar

\* the scopes StoplossGuard blocks under the strategy's configuration
LockScopes(v) ==
    IF Protection(v, "StoplossGuard").only_per_pair THEN TradedPairs ELSE {Global}

\* the stoploss exits that were the K-th or a later one of their scope inside the
\* lookback window ending at them, K = trade_limit
TriggerExits(scope) ==
    LET guard == Protection(variant, "StoplossGuard")
    IN  {i \in 1..Len(sl_exits) :
           /\ sl_exits[i].bar >= 0
           /\ InScope(sl_exits[i], scope)
           /\ Cardinality({j \in 1..i :
                  /\ InScope(sl_exits[j], scope)
                  /\ sl_exits[i].bar - sl_exits[j].bar <= guard.lookback_period_candles})
              >= guard.trade_limit}

\* a scope is STOPLOSS_BLOCKED exactly in the stop_duration_candles candles that
\* follow a K-th stoploss exit inside the lookback window
C7_BlockedExactly ==
    Configured(variant, "StoplossGuard") =>
        \A scope \in LockScopes(variant) :
            StoplossBlocked(scope) <=>
                \E i \in TriggerExits(scope) :
                    bar - sl_exits[i].bar
                        < Protection(variant, "StoplossGuard").stop_duration_candles

\* the block begins at a stoploss exit and ends with a candle elapsing
C7_Step ==
    \A scope \in Scopes :
        /\ (~StoplossBlocked(scope) /\ StoplossBlocked(scope)')
               => (Len(sl_exits') = Len(sl_exits) + 1 /\ bar' = bar)
        /\ (StoplossBlocked(scope) /\ ~StoplossBlocked(scope)')
               => (bar' = bar + 1 /\ sl_exits' = sl_exits)

\* C7: StoplossGuard becomes STOPLOSS_BLOCKED exactly at the K-th stoploss exit
\* inside the lookback window (K = trade_limit, not earlier), stays blocked for
\* exactly stop_duration_candles candles, and returns to OPEN by the elapsed
\* candle count alone.
C7_StoplossGuard ==
    /\ []C7_BlockedExactly
    /\ [][C7_Step]_vars

\* stop_duration_candles after a K-th stoploss exit: the scope is no longer blocked
C7_Witness ==
    /\ Configured(variant, "StoplossGuard")
    /\ \E scope \in LockScopes(variant) : \E i \in TriggerExits(scope) :
          /\ bar - sl_exits[i].bar
                = Protection(variant, "StoplossGuard").stop_duration_candles
          /\ ~StoplossBlocked(scope)

\* an entry is emitted on pair p in this step
Entered(p) == ~open_trade[p] /\ open_trade'[p]

\* no K-th stoploss exit of a scope covering p lies fewer than
\* stop_duration_candles back
StoplossExpired(p) ==
    Configured(variant, "StoplossGuard") =>
        \A scope \in LockScopes(variant) \cap {p, Global} :
            \A i \in TriggerExits(scope) :
                bar - sl_exits[i].bar
                    >= Protection(variant, "StoplossGuard").stop_duration_candles

----------------------------------------------------------------------------
(* Indicators (strategies/indicators.py) and the strategies' decision pass.
   A dataframe is a record of columns, a column a sequence with one entry
   per candle; row i of the source is entry i + 1. Prices and the values
   derived from them are fixed-point numbers with Scale units to 1.0. *)

Scale == 100
\* vol_frac is a ratio of volumes: it is kept with VolScale units to 1.0
VolScale == 1000000

\* numpy.nan
NaN == 0 - 2000000000

\* comparisons of two column values: one with NaN is False
gt(a, b) == a # NaN /\ b # NaN /\ a > b
ge(a, b) == a # NaN /\ b # NaN /\ a >= b
lt(a, b) == a # NaN /\ b # NaN /\ a < b
le(a, b) == a # NaN /\ b # NaN /\ a <= b

\* bool.astype(int)
astype_int(b) == IF b THEN 1 ELSE 0

SetMax(S) == CHOOSE x \in S : \A y \in S : y <= x
SetMin(S) == CHOOSE x \in S : \A y \in S : x <= y

\* a column, held as the tuple of its values
column(col) == SubSeq(col, 1, Len(col))

\* a dataframe, held as the record of its columns
dataframe(df) == df @@ [c \in {} |-> NaN]

\* Series.shift(1)
shift(col) == column([i \in 1..Len(col) |-> IF i = 1 THEN NaN ELSE col[i - 1]])

\* Series.diff()
diff(col) ==
    column([i \in 1..Len(col) |->
        IF i = 1 \/ col[i] = NaN \/ col[i - 1] = NaN THEN NaN ELSE col[i] - col[i - 1]])

\* Series.ffill(): the last valid value at or before the row
ffill(col) ==
    column([i \in 1..Len(col) |->
        LET valid == {j \in 1..i : col[j] # NaN}
        IN  IF col[i] # NaN THEN col[i]
            ELSE IF valid = {} THEN NaN ELSE col[SetMax(valid)]])

\* Series.bfill(): the first valid value at or after the row
bfill(col) ==
    column([i \in 1..Len(col) |->
        LET valid == {j \in i..Len(col) : col[j] # NaN}
        IN  IF col[i] # NaN THEN col[i]
            ELSE IF valid = {} THEN NaN ELSE col[SetMin(valid)]])

\* Series.ewm(alpha=num/den, adjust=False).mean() continued over rows lo..hi
\* from the values y of the rows before lo:
\* y[0] = x[0], y[t] = (1 - alpha) y[t-1] + alpha x[t]
RECURSIVE ewm_rows(_, _, _, _, _, _)
ewm_rows(y, x, num, den, lo, hi) ==
    IF lo > hi THEN y
    ELSE IF lo = hi
    THEN Append(y, IF x[lo] = NaN THEN (IF lo = 1 THEN NaN ELSE y[lo - 1])
                   ELSE IF lo = 1 THEN x[lo]
                   ELSE IF y[lo - 1] = NaN THEN x[lo]
                   ELSE ((den - num) * y[lo - 1] + num * x[lo]) \div den)
    ELSE LET mid == (lo + hi) \div 2
             head == ewm_rows(y, x, num, den, lo, mid)
         IN  IF Len(head) = mid THEN ewm_rows(head, x, num, den, mid + 1, hi) ELSE head

\* the first k values of Series.ewm(alpha=num/den, adjust=False).mean(),
\* min_periods not yet applied
ewm_mean(x, num, den, k) == ewm_rows(<< >>, x, num, den, 1, k)

\* Series.ewm(alpha=num/den, min_periods=min_periods, adjust=False).mean()
ewm(x, num, den, min_periods) ==
    LET y == ewm_mean(x, num, den, Len(x))
    IN  column([i \in 1..Len(x) |->
            IF min_periods = 0 \/ Cardinality({j \in 1..i : x[j] # NaN}) >= min_periods
            THEN y[i] ELSE NaN])

\* a smoothing centred on the row: the mean of the row and the next one
ewm_span_Lookahead(x, span) ==
    column([i \in 1..Len(x) |->
        IF i = Len(x) THEN x[i] ELSE (x[i] + x[i + 1]) \div 2])

\* Series.ewm(span=span, adjust=False).mean(): alpha = 2 / (span + 1)
ewm_span(x, span) == ewm(x, 2, span + 1, 0)

RECURSIVE SumRange(_, _, _)
SumRange(col, a, b) == IF a > b THEN 0 ELSE col[a] + SumRange(col, a + 1, b)

\* Series.rolling(window).sum(): NaN until the window holds `window` valid values
rolling_sum(col, window) ==
    column([i \in 1..Len(col) |->
        IF i < window \/ \E j \in (i - window + 1)..i : col[j] = NaN THEN NaN
        ELSE SumRange(col, i - window + 1, i)])

\* Series.rolling(window).mean()
rolling_mean(col, window) ==
    LET sum == rolling_sum(col, window)
    IN  column([i \in 1..Len(col) |-> IF sum[i] = NaN THEN NaN ELSE sum[i] \div window])

\* calculate_ema_macd
calculate_ema_macd(df, ema_fast_span, ema_slow_span, macd_signal_span) ==
    LET ema_fast == ewm_span(df.close, ema_fast_span)
        ema_slow == ewm_span(df.close, ema_slow_span)
        macd == column([i \in 1..Len(df.close) |-> ema_fast[i] - ema_slow[i]])
        macd_sig == ewm_span(macd, macd_signal_span)
    IN  [macd |-> macd, macd_sig |-> macd_sig,
         macd_hist |-> column([i \in 1..Len(df.close) |-> macd[i] - macd_sig[i]]),
         ema_fast |-> ema_fast, ema_slow |-> ema_slow] @@ df

\* calculate_trend_emas
calculate_trend_emas(df) ==
    [ema50 |-> ewm_span(df.close, 50), ema200 |-> ewm_span(df.close, 200)] @@ df

\* calculate_rsi with the price changes left unclipped
calculate_rsi_NoClip(df, period) ==
    LET delta == diff(df.close)
        gain == delta
        loss == column([i \in 1..Len(delta) |-> IF delta[i] = NaN THEN NaN ELSE 0 - delta[i]])
        avg_gain == ewm(gain, 1, period, period)
        avg_loss == ewm(loss, 1, period, period)
    IN  [rsi |-> column([i \in 1..Len(delta) |->
                    IF avg_gain[i] = NaN \/ avg_loss[i] = NaN THEN NaN
                    ELSE IF avg_gain[i] = 0 THEN 0
                    ELSE IF avg_gain[i] + avg_loss[i] = 0 THEN 100 * Scale
                    ELSE (100 * Scale * avg_gain[i]) \div (avg_gain[i] + avg_loss[i])])] @@ df

\* calculate_rsi: 100 - 100 / (1 + avg_gain / (avg_loss + 1e-10))
calculate_rsi(df, period) ==
    LET delta == diff(df.close)
        gain == column([i \in 1..Len(delta) |-> IF delta[i] = NaN THEN NaN ELSE Max(delta[i], 0)])
        loss == column([i \in 1..Len(delta) |-> IF delta[i] = NaN THEN NaN ELSE 0 - Min(delta[i], 0)])
        avg_gain == ewm(gain, 1, period, period)
        avg_loss == ewm(loss, 1, period, period)
    IN  [rsi |-> column([i \in 1..Len(delta) |->
                    IF avg_gain[i] = NaN \/ avg_loss[i] = NaN THEN NaN
                    ELSE IF avg_gain[i] = 0 THEN 0
                    ELSE (100 * Scale * avg_gain[i]) \div (avg_gain[i] + avg_loss[i])])] @@ df

\* the true range with signed differences and the smallest of the three taken
true_range_MinSigned(df, i) ==
    LET hl == df.high[i] - df.low[i]
    IN  IF i = 1 THEN hl
        ELSE LET prev_close == df.close[i - 1]
             IN  Min(hl, Min(df.high[i] - prev_close, df.low[i] - prev_close))

\* the true range of row i: the NaN of the first row's prev_close is skipped by max(axis=1)
true_range(df, i) ==
    LET hl == df.high[i] - df.low[i]
    IN  IF i = 1 THEN hl
        ELSE LET prev_close == df.close[i - 1]
                 hc == IF df.high[i] >= prev_close THEN df.high[i] - prev_close
                       ELSE prev_close - df.high[i]
                 lc == IF df.low[i] >= prev_close THEN df.low[i] - prev_close
                       ELSE prev_close - df.low[i]
             IN  Max(hl, Max(hc, lc))

\* calculate_atr
calculate_atr(df, period) ==
    LET tr == column([i \in 1..Len(df.close) |-> true_range(df, i)])
    IN  [atr |-> ewm(tr, 1, period, period)] @@ df

\* calculate_adx: the rolling mean of atr
calculate_adx(df, period) ==
    [adx |-> rolling_mean(df.atr, period)] @@ df

\* calculate_volume_fraction: volume / volume.rolling(window).mean()
calculate_volume_fraction(df, window) ==
    LET sum == rolling_sum(df.volume, window)
    IN  [vol_frac |-> column([i \in 1..Len(df.volume) |->
                         IF sum[i] = NaN \/ sum[i] = 0 THEN NaN
                         ELSE (df.volume[i] * window * VolScale) \div sum[i]])] @@ df

\* DataFrame.ffill(inplace=True); DataFrame.bfill(inplace=True)
fill(df) == dataframe([c \in DOMAIN df |-> bfill(ffill(df[c]))])

\* calculate_all_indicators
calculate_all_indicators(df, ema_fast_span, ema_slow_span, macd_signal_span, rsi_period, atr_period, adx_period, volume_window) ==
    LET df1 == calculate_ema_macd(df, ema_fast_span, ema_slow_span, macd_signal_span)
        df2 == calculate_trend_emas(df1)
        df3 == calculate_rsi(df2, rsi_period)
        df4 == calculate_atr(df3, atr_period)
        df5 == calculate_adx(df4, adx_period)
        df6 == calculate_volume_fraction(df5, volume_window)
    IN  fill(df6)

----------------------------------------------------------------------------
(* The strategies' decision pass: populate_indicators, populate_entry_trend,
   populate_exit_trend *)

Strategies == {"NewsHeliusBitqueryML", "OptimizedIndicatorsStrategy"}

\* timeframe = "5m"
timeframe_minutes == 5
MINUTES_PER_HOUR == 60
HOURS_PER_DAY == 24

\* buy_params and sell_params of both strategies; vol_min in VolScale units
buy_params ==
    [vol_min |-> 2000, rsi_long_th |-> 45, adx_min |-> 14, ema_fast |-> 12,
     ema_slow |-> 26, rsi_period |-> 14, macd_fast |-> 12, macd_slow |-> 26,
     macd_signal |-> 9, atr_period |-> 14, volume_window |-> 20]
sell_params == [rsi_exit_long |-> 70, ema_exit_long |-> TRUE]

\* the candle series fed to a strategy: the k-th close is
\* base + drift * (k - 1), raised by jump from candle jump_at on; the candle opens
\* at the previous close, its wicks reach `wick` beyond open and close; the first
\* candle opens at start_minute of the day. With bend_at > 0 the close moves by
\* bend_drift per candle after candle bend_at and by resume_drift per candle
\* after candle resume_at
Feeds ==
    {[base |-> 1000, drift |-> d, jump_at |-> j, jump |-> 200, wick |-> 10,
      volume |-> 10, start_minute |-> 300,
      bend_at |-> 0, bend_drift |-> 0, resume_at |-> 0, resume_drift |-> 0] : d \in {0 - 1, 0, 1}, j \in {0, 16}}
    \cup {[base |-> 1000, drift |-> 0 - 1, jump_at |-> 16, jump |-> 200, wick |-> 10,
           volume |-> 10, start_minute |-> 1350,
           bend_at |-> 0, bend_drift |-> 0, resume_at |-> 0, resume_drift |-> 0]}

FeedClose(f, k) ==
    LET bent == IF f.bend_at > 0 /\ k > f.bend_at THEN k - f.bend_at ELSE 0
        resumed == IF f.bend_at > 0 /\ k > f.resume_at THEN k - f.resume_at ELSE 0
    IN  f.base + f.drift * (k - 1 - bent) + f.bend_drift * (bent - resumed)
        + f.resume_drift * resumed
        + (IF f.jump_at > 0 /\ k >= f.jump_at THEN f.jump ELSE 0)

FeedCandle(f, k) ==
    LET close == FeedClose(f, k)
        open == IF k = 1 THEN close ELSE FeedClose(f, k - 1)
    IN  [date |-> f.start_minute + (k - 1) * timeframe_minutes,
         open |-> open, high |-> Max(open, close) + f.wick,
         low |-> Min(open, close) - f.wick, close |-> close, volume |-> f.volume]

\* the values pd.Timestamp.now().hour takes
WallHours == {3, 12}

\* the dataframe handed to populate_indicators
DataFrame(cs, dated) ==
    LET ohlcv == [open |-> column([i \in 1..Len(cs) |-> cs[i].open * Scale]),
                  high |-> column([i \in 1..Len(cs) |-> cs[i].high * Scale]),
                  low |-> column([i \in 1..Len(cs) |-> cs[i].low * Scale]),
                  close |-> column([i \in 1..Len(cs) |-> cs[i].close * Scale]),
                  volume |-> column([i \in 1..Len(cs) |-> cs[i].volume])]
    IN  IF dated THEN [date |-> column([i \in 1..Len(cs) |-> cs[i].date])] @@ ohlcv ELSE ohlcv

\* Series.dt.hour
dt_hour(date) == (date \div MINUTES_PER_HOUR) % HOURS_PER_DAY

\* add_trading_hours_filter; now_hour is pd.Timestamp.now().hour
add_trading_hours_filter(df, start_hour, end_hour, now_hour) ==
    LET hours == IF "date" \in DOMAIN df
                 THEN column([i \in 1..Len(df.close) |-> dt_hour(df.date[i])])
                 ELSE column([i \in 1..Len(df.close) |-> now_hour])
    IN  [tradable_hour |-> column([i \in 1..Len(df.close) |->
            astype_int(hours[i] >= start_hour /\ hours[i] <= end_hour)])] @@ df

\* NewsHeliusBitqueryML.populate_indicators
main_populate_indicators(df) ==
    LET df1 == calculate_all_indicators(df, 12, 26, 9, 14, 14, 14, 20)
        \* atr / close > 0.0015
        vol_ok == column([i \in 1..Len(df1.close) |->
                      astype_int(df1.atr[i] # NaN /\ df1.close[i] # NaN
                                 /\ df1.atr[i] * 10000 > 15 * df1.close[i])])
    IN  fill([vol_ok |-> vol_ok] @@ df1)

\* populate_entry_trend with the MACD cross replaced by the MACD side
main_populate_entry_trend_NoCross(df) ==
    [enter_long |-> column([i \in 1..Len(df.close) |->
        astype_int(gt(df.ema50[i], df.ema200[i]) /\ df.vol_ok[i] = 1
                   /\ gt(df.macd[i], df.macd_sig[i]) /\ gt(df.rsi[i], 45 * Scale))]),
     enter_short |-> column([i \in 1..Len(df.close) |->
        astype_int(lt(df.ema50[i], df.ema200[i]) /\ df.vol_ok[i] = 1
                   /\ lt(df.macd[i], df.macd_sig[i]) /\ lt(df.rsi[i], 55 * Scale))])] @@ df

\* NewsHeliusBitqueryML.populate_entry_trend
main_populate_entry_trend(df) ==
    LET prev_macd == shift(df.macd)
        prev_macd_sig == shift(df.macd_sig)
        trend_long(i) == gt(df.ema50[i], df.ema200[i])
        trend_short(i) == lt(df.ema50[i], df.ema200[i])
        macd_cross_up(i) == gt(df.macd[i], df.macd_sig[i]) /\ le(prev_macd[i], prev_macd_sig[i])
        macd_cross_down(i) == lt(df.macd[i], df.macd_sig[i]) /\ ge(prev_macd[i], prev_macd_sig[i])
        rsi_ok_long(i) == gt(df.rsi[i], 45 * Scale)
        rsi_ok_short(i) == lt(df.rsi[i], 55 * Scale)
    IN  [enter_long |-> column([i \in 1..Len(df.close) |->
            astype_int(trend_long(i) /\ df.vol_ok[i] = 1 /\ macd_cross_up(i) /\ rsi_ok_long(i))]),
         enter_short |-> column([i \in 1..Len(df.close) |->
            astype_int(trend_short(i) /\ df.vol_ok[i] = 1 /\ macd_cross_down(i)
                       /\ rsi_ok_short(i))])] @@ df

\* NewsHeliusBitqueryML.populate_exit_trend
main_populate_exit_trend(df) ==
    [exit_long |-> column([i \in 1..Len(df.close) |->
        astype_int(lt(df.macd[i], df.macd_sig[i]) \/ lt(df.rsi[i], 50 * Scale))]),
     exit_short |-> column([i \in 1..Len(df.close) |->
        astype_int(gt(df.macd[i], df.macd_sig[i]) \/ gt(df.rsi[i], 50 * Scale))])] @@ df

\* OptimizedIndicatorsStrategy.populate_indicators
opt_populate_indicators(df, now_hour) ==
    add_trading_hours_filter(
        calculate_all_indicators(df, buy_params.ema_fast, buy_params.ema_slow,
                                 buy_params.macd_signal, buy_params.rsi_period,
                                 buy_params.atr_period, 14, buy_params.volume_window),
        6, 22, now_hour)

\* OptimizedIndicatorsStrategy.populate_entry_trend
opt_populate_entry_trend(df) ==
    LET prev_rsi == shift(df.rsi)
        long_cond(i) ==
            /\ gt(df.ema50[i], df.ema200[i])
            /\ gt(df.ema_fast[i], df.ema_slow[i])
            /\ gt(df.vol_frac[i], buy_params.vol_min)
            /\ gt(df.macd[i], df.macd_sig[i])
            /\ ge(df.adx[i], buy_params.adx_min * Scale)
            /\ lt(prev_rsi[i], buy_params.rsi_long_th * Scale)
            /\ ge(df.rsi[i], buy_params.rsi_long_th * Scale)
            /\ df.tradable_hour[i] = 1
    IN  [enter_long |-> column([i \in 1..Len(df.close) |-> astype_int(long_cond(i))])] @@ df

\* OptimizedIndicatorsStrategy.populate_exit_trend
opt_populate_exit_trend(df) ==
    [exit_long |-> column([i \in 1..Len(df.close) |->
        astype_int(\/ gt(df.rsi[i], sell_params.rsi_exit_long * Scale)
                   \/ (sell_params.ema_exit_long /\ lt(df.close[i], df.ema_fast[i])))])] @@ df

\* one decision pass of strategy st over the candles cs
DecisionPass(st, cs, dated, now_hour) ==
    IF st = "NewsHeliusBitqueryML"
    THEN main_populate_exit_trend(
             main_populate_entry_trend(main_populate_indicators(DataFrame(cs, dated))))
    ELSE opt_populate_exit_trend(
             opt_populate_entry_trend(opt_populate_indicators(DataFrame(cs, dated), now_hour)))

\* a column of the frame, all 0 where the strategy does not set the column
Column(f, name) ==
    IF name \in DOMAIN f THEN f[name] ELSE column([i \in 1..Len(f.close) |-> 0])

\* the decisions of a frame
Decisions(f) ==
    [c \in {"enter_long", "enter_short", "exit_long", "exit_short"} |-> Column(f, c)]

StrategyInit ==
    /\ strategy \in Strategies
    /\ feed \in Feeds
    /\ has_date \in BOOLEAN
    /\ wall_hour \in WallHours
    /\ candles = << >>
    /\ frame = DecisionPass(strategy, candles, has_date, wall_hour)

\* no strategy is run
StrategyIdle ==
    /\ strategy = "NewsHeliusBitqueryML"
    /\ feed = [base |-> 1000, drift |-> 0, jump_at |-> 0, jump |-> 200, wick |-> 10,
               volume |-> 10, start_minute |-> 300]
    /\ has_date = TRUE
    /\ wall_hour = 12
    /\ candles = << >>
    /\ frame = DecisionPass(strategy, candles, has_date, wall_hour)

\* a candle closes: the strategy is run over the longer series
NewCandle ==
    /\ Len(candles) < MaxRows
    /\ candles' = Append(candles, FeedCandle(feed, Len(candles) + 1))
    /\ frame' = DecisionPass(strategy, candles', has_date, wall_hour)
    /\ UNCHANGED <<strategy, feed, has_date, wall_hour>>
    /\ UNCHANGED <<cacheVars, mlVars, guardVars, requestVars, monitorVars>>

\* the strategy is run once more over the same candles
Replay ==
    /\ Len(candles) >= 1
    /\ frame' = DecisionPass(strategy, candles, has_date, wall_hour)
    /\ UNCHANGED <<strategy, feed, has_date, wall_hour, candles>>
    /\ UNCHANGED <<cacheVars, mlVars, guardVars, requestVars, monitorVars>>

\* the wall clock reaches another hour
HourPasses ==
    /\ wall_hour' \in WallHours \ {wall_hour}
    /\ UNCHANGED <<strategy, feed, has_date, candles, frame>>
    /\ UNCHANGED <<cacheVars, mlVars, guardVars, requestVars, monitorVars>>

StrategyNext ==
    \/ NewCandle
    \/ Replay
    \/ HourPasses

----------------------------------------------------------------------------
(* The strategy variants: the backtest copy of 2025-08-09 12:09, the hyperopt
   variant, the planB backup and IntradayScalp5m. Ratios of a price to a price
   (atr_pct) are kept with PctScale units to 1.0. *)

PctScale == 100000

\* the candle at which a variant's series jumps, and the candles run after it
JumpAt == 145
TailRows == 8
\* the candles of a variant's first decision pass
StartupRows == 140

StrategyVariants ==
    {"NewsHeliusBitqueryML", "backtest_trades-2025-08-09_12-09-03_NewsHeliusBitqueryML",
     "NewsHeliusBitqueryML_Hyperopt", "NewsHeliusBitqueryML.backup.planB", "IntradayScalp5m",
     "ab_breakout-2025-08-10_15-41-40_NewsHeliusBitqueryML",
     "backtest_trades-2025-08-09_20-47-59_NewsHeliusBitqueryML"}

\* the can_short attribute of a strategy class
can_short(st) ==
    st \in {"NewsHeliusBitqueryML", "IntradayScalp5m",
            "ab_breakout-2025-08-10_15-41-40_NewsHeliusBitqueryML",
            "backtest_trades-2025-08-09_20-47-59_NewsHeliusBitqueryML"}

\* the candle series fed to a variant: as FeedCandle, with a volume that changes
\* by volume_step every second candle
VariantCandle(f, k) ==
    [FeedCandle(f, k) EXCEPT !.volume = f.volume + f.volume_step * ((k - 1) \div 2)]

\* the rows of lo..hi that are in keep, in order, appended to rows
RECURSIVE kept_rows(_, _, _, _)
kept_rows(rows, keep, lo, hi) ==
    IF lo > hi THEN rows
    ELSE IF lo = hi THEN (IF lo \in keep THEN Append(rows, lo) ELSE rows)
    ELSE LET mid == (lo + hi) \div 2
             head == kept_rows(rows, keep, lo, mid)
         IN  IF Len(head) <= mid THEN kept_rows(head, keep, mid + 1, hi) ELSE head

\* DataFrame.dropna(): the rows without a NaN, in order
dropna(df) ==
    LET n == Len(df.close)
        keep == {i \in 1..n : \A c \in DOMAIN df : df[c][i] # NaN}
        rows == kept_rows(<< >>, keep, 1, n)
    IN  dataframe([c \in DOMAIN df |-> column([r \in 1..Len(rows) |-> df[c][rows[r]]])])

\* 100 - 100 / (1 + rs) with rs = up / down.replace(0, nan), and fillna(50)
rsi_fillna50(up, down) ==
    column([i \in 1..Len(up) |->
        IF up[i] = NaN \/ down[i] = NaN \/ down[i] = 0 THEN 50 * Scale
        ELSE (100 * Scale * up[i]) \div (up[i] + down[i])])

\* the true range of row i computed with np.maximum: the NaN of the first row's
\* prev_close makes the first row NaN
true_range_np(df, i) == IF i = 1 THEN NaN ELSE true_range(df, i)

\* atr / close
atr_over_close(atr, close) ==
    column([i \in 1..Len(close) |->
        IF atr[i] = NaN \/ close[i] = NaN THEN NaN ELSE (atr[i] * PctScale) \div close[i]])

\* --- backtest_trades-2025-08-09_12-09-03_NewsHeliusBitqueryML.py ---

\* _rsi
backtest_rsi(series, period) ==
    LET delta == diff(series)
        up == column([i \in 1..Len(delta) |-> IF gt(delta[i], 0) THEN delta[i] ELSE 0])
        down == column([i \in 1..Len(delta) |-> IF lt(delta[i], 0) THEN 0 - delta[i] ELSE 0])
    IN  rsi_fillna50(ewm(up, 1, period, 0), ewm(down, 1, period, 0))

\* _atr
backtest_atr(df, period) ==
    ewm(column([i \in 1..Len(df.close) |-> true_range(df, i)]), 1, period, 0)

\* populate_indicators; atr_pct is in percent: PctScale \div 100 units to 1 percent
backtest_populate_indicators(df) ==
    LET n == Len(df.close)
        atr == backtest_atr(df, 14)
        vol_sum == rolling_sum(df.volume, 20)
        ind == [ema_fast |-> ewm_span(df.close, 50),
                ema_slow |-> ewm_span(df.close, 200),
                rsi |-> backtest_rsi(df.close, 14),
                atr |-> atr,
                atr_pct |-> atr_over_close(atr, df.close),
                vol_ma20 |-> rolling_mean(df.volume, 20),
                vol_ok |-> column([i \in 1..n |->
                    astype_int(vol_sum[i] # NaN /\ df.volume[i] * 20 > vol_sum[i])])] @@ df
    IN  dropna(dataframe([c \in DOMAIN ind |-> ffill(ind[c])]))

\* populate_entry_trend with the short side mirroring the long side
backtest_populate_entry_trend_Mirror(df) ==
    [enter_long |-> column([i \in 1..Len(df.close) |->
        astype_int(/\ gt(df.ema_fast[i], df.ema_slow[i])
                   /\ gt(df.rsi[i], 55 * Scale)
                   /\ gt(df.atr_pct[i], 250)
                   /\ df.vol_ok[i] = 1)]),
     enter_short |-> column([i \in 1..Len(df.close) |->
        astype_int(/\ lt(df.ema_fast[i], df.ema_slow[i])
                   /\ lt(df.rsi[i], 45 * Scale)
                   /\ gt(df.atr_pct[i], 250)
                   /\ df.vol_ok[i] = 1)])] @@ df

\* populate_entry_trend: atr_pct > 0.25 percent
backtest_populate_entry_trend(df) ==
    [enter_long |-> column([i \in 1..Len(df.close) |->
        astype_int(/\ gt(df.ema_fast[i], df.ema_slow[i])
                   /\ gt(df.rsi[i], 55 * Scale)
                   /\ gt(df.atr_pct[i], 250)
                   /\ df.vol_ok[i] = 1)]),
     enter_short |-> column([i \in 1..Len(df.close) |-> 0])] @@ df

\* populate_exit_trend
backtest_populate_exit_trend(df) ==
    [exit_long |-> column([i \in 1..Len(df.close) |->
        astype_int(lt(df.rsi[i], 45 * Scale) \/ lt(df.ema_fast[i], df.ema_slow[i]))]),
     exit_short |-> column([i \in 1..Len(df.close) |-> 0])] @@ df

\* --- strategies/NewsHeliusBitqueryML_Hyperopt.py ---

hyperopt_buy_params ==
    [vol_min |-> 2000, rsi_long_th |-> 45, adx_min |-> 14, ema_fast |-> 12,
     ema_slow |-> 26, rsi_period |-> 14, macd_fast |-> 12, macd_slow |-> 26,
     macd_signal |-> 9, atr_period |-> 14]
hyperopt_sell_params == [rsi_exit_long |-> 70, ema_exit_long |-> TRUE]

\* populate_indicators: the computations of calculate_all_indicators, written
\* out in the strategy
hyperopt_populate_indicators(df) ==
    LET df1 == calculate_ema_macd(df, hyperopt_buy_params.ema_fast,
                                  hyperopt_buy_params.ema_slow, hyperopt_buy_params.macd_signal)
        df2 == calculate_trend_emas(df1)
        df3 == calculate_rsi(df2, hyperopt_buy_params.rsi_period)
        df4 == calculate_atr(df3, hyperopt_buy_params.atr_period)
        df5 == calculate_adx(df4, 14)
        df6 == calculate_volume_fraction(df5, 20)
    IN  fill(df6)

\* populate_entry_trend: no enter_short column is written
hyperopt_populate_entry_trend(df) ==
    LET prev_rsi == shift(df.rsi)
        long_cond(i) ==
            /\ gt(df.ema_fast[i], df.ema_slow[i])
            /\ gt(df.vol_frac[i], hyperopt_buy_params.vol_min)
            /\ gt(df.macd[i], df.macd_sig[i])
            /\ ge(df.adx[i], hyperopt_buy_params.adx_min * Scale)
            /\ lt(prev_rsi[i], hyperopt_buy_params.rsi_long_th * Scale)
            /\ ge(df.rsi[i], hyperopt_buy_params.rsi_long_th * Scale)
    IN  [enter_long |-> column([i \in 1..Len(df.close) |-> astype_int(long_cond(i))])] @@ df

\* populate_exit_trend
hyperopt_populate_exit_trend(df) ==
    [exit_long |-> column([i \in 1..Len(df.close) |->
        astype_int(\/ gt(df.rsi[i], hyperopt_sell_params.rsi_exit_long * Scale)
                   \/ (hyperopt_sell_params.ema_exit_long /\ lt(df.close[i], df.ema_fast[i])))])] @@ df

\* --- user_data/strategies/NewsHeliusBitqueryML.backup.planB.py ---

\* the defaults of the hyperoptable parameters; atr_min_pct in PctScale units,
\* ema_kiss_pct in units of 1 / 10000
planB_params ==
    [donch_window |-> 40, atr_min_pct |-> 450, rsi_min_long |-> 52, adx_min |-> 20,
     ema_kiss_pct |-> 20, rsi_exit_high |-> 68]

\* the values of the entry_mode parameter
EntryModes == {"breakout", "pullback"}

\* Series.rolling(window, min_periods=window).max() and .min()
rolling_max(col, window) ==
    column([i \in 1..Len(col) |->
        IF i < window \/ \E j \in (i - window + 1)..i : col[j] = NaN THEN NaN
        ELSE SetMax({col[j] : j \in (i - window + 1)..i})])

rolling_min(col, window) ==
    column([i \in 1..Len(col) |->
        IF i < window \/ \E j \in (i - window + 1)..i : col[j] = NaN THEN NaN
        ELSE SetMin({col[j] : j \in (i - window + 1)..i})])

\* the ADX(14) of planB: directional movement, Wilder-smoothed, fillna(20)
planB_adx(df) ==
    LET n == Len(df.close)
        up_move == diff(df.high)
        low_diff == diff(df.low)
        down_move == column([i \in 1..n |-> IF low_diff[i] = NaN THEN NaN ELSE 0 - low_diff[i]])
        plus_dm == column([i \in 1..n |->
            IF gt(up_move[i], down_move[i]) /\ gt(up_move[i], 0) THEN up_move[i] ELSE 0])
        minus_dm == column([i \in 1..n |->
            IF gt(down_move[i], up_move[i]) /\ gt(down_move[i], 0) THEN down_move[i] ELSE 0])
        tr14 == ewm(column([i \in 1..n |-> true_range(df, i)]), 1, 14, 0)
        plus_sm == ewm(plus_dm, 1, 14, 0)
        minus_sm == ewm(minus_dm, 1, 14, 0)
        \* 100 * x / tr14: NaN for 0 / 0; a division of a positive value by 0 cannot
        \* happen, tr14 being at least the mean of the moves
        di(x, i) == IF tr14[i] = 0 THEN NaN ELSE (100 * Scale * x[i]) \div tr14[i]
        plus_di == column([i \in 1..n |-> di(plus_sm, i)])
        minus_di == column([i \in 1..n |-> di(minus_sm, i)])
        dx == column([i \in 1..n |->
            IF plus_di[i] = NaN \/ minus_di[i] = NaN \/ plus_di[i] + minus_di[i] = 0 THEN NaN
            ELSE (100 * Scale * (Max(plus_di[i], minus_di[i]) - Min(plus_di[i], minus_di[i])))
                     \div (plus_di[i] + minus_di[i])])
        adx == ewm(dx, 1, 14, 0)
    IN  column([i \in 1..n |-> IF adx[i] = NaN THEN 20 * Scale ELSE adx[i]])

\* populate_indicators; informative is what dp.get_pair_dataframe gives for the 1h
\* timeframe: nothing ("none"), or candles that put close above a rising
\* ema200_1h ("up") or below a falling one ("down")
planB_populate_indicators(df, informative) ==
    LET n == Len(df.close)
        ema_fast == ewm_span(df.close, 50)
        prev_ema_fast == shift(ema_fast)
        macd_fast == ewm_span(df.close, 12)
        macd_slow == ewm_span(df.close, 26)
        macd == column([i \in 1..n |-> macd_fast[i] - macd_slow[i]])
        macd_sig == ewm_span(macd, 9)
        macd_hist == column([i \in 1..n |-> macd[i] - macd_sig[i]])
        delta == diff(df.close)
        gain == column([i \in 1..n |-> IF delta[i] = NaN THEN NaN ELSE Max(delta[i], 0)])
        loss == column([i \in 1..n |-> IF delta[i] = NaN THEN NaN ELSE 0 - Min(delta[i], 0)])
        atr == ewm(column([i \in 1..n |-> true_range_np(df, i)]), 1, 14, 0)
        ratio == atr_over_close(atr, df.close)
        atr_pct == column([i \in 1..n |-> IF ratio[i] = NaN THEN NaN ELSE Max(ratio[i], 0)])
        ind == [ema_fast |-> ema_fast,
                ema_slow |-> ewm_span(df.close, 200),
                ema_fast_slope |-> column([i \in 1..n |->
                    IF prev_ema_fast[i] = NaN THEN NaN ELSE ema_fast[i] - prev_ema_fast[i]]),
                macd |-> macd, macd_sig |-> macd_sig, macd_hist |-> macd_hist,
                macd_hist_slope |-> diff(macd_hist),
                rsi |-> rsi_fillna50(ewm(gain, 1, 14, 0), ewm(loss, 1, 14, 0)),
                atr |-> atr,
                atr_pct |-> atr_pct,
                vol_ok |-> column([i \in 1..n |-> astype_int(gt(atr_pct[i], planB_params.atr_min_pct))]),
                donch_hi |-> rolling_max(df.high, planB_params.donch_window),
                donch_lo |-> rolling_min(df.low, planB_params.donch_window),
                adx |-> planB_adx(df)] @@ df
        regime == IF informative = "none" THEN ind
                  ELSE [regime_long |-> column([i \in 1..n |-> astype_int(informative = "up")]),
                        regime_short |-> column([i \in 1..n |-> astype_int(informative = "down")])]
                       @@ ind
    IN  fill(regime)

\* populate_entry_trend
planB_populate_entry_trend(df, entry_mode) ==
    LET n == Len(df.close)
        regime_long(i) == IF "regime_long" \in DOMAIN df THEN df.regime_long[i] = 1 ELSE TRUE
        donch_hi_prev == shift(df.donch_hi)
        near_ema(i) ==
            LET dev == Max(df.close[i], df.ema_fast[i]) - Min(df.close[i], df.ema_fast[i])
            IN  dev * 10000 <= planB_params.ema_kiss_pct * df.ema_fast[i]
        macd_conf(i) == gt(df.macd_hist[i], 0) /\ gt(df.macd_hist_slope[i], 0)
        long_cond(i) ==
            IF entry_mode = "breakout"
            THEN /\ df.vol_ok[i] = 1
                 /\ gt(df.close[i], donch_hi_prev[i])
                 /\ gt(df.rsi[i], planB_params.rsi_min_long * Scale)
                 /\ gt(df.adx[i], planB_params.adx_min * Scale)
                 /\ regime_long(i)
            ELSE df.vol_ok[i] = 1 /\ near_ema(i) /\ macd_conf(i) /\ regime_long(i)
        short_cond(i) == FALSE
    IN  [enter_long |-> column([i \in 1..n |-> astype_int(long_cond(i))]),
         enter_short |-> column([i \in 1..n |-> astype_int(short_cond(i))])] @@ df

\* populate_exit_trend
planB_populate_exit_trend(df) ==
    [exit_long |-> column([i \in 1..Len(df.close) |->
        astype_int(\/ gt(df.rsi[i], planB_params.rsi_exit_high * Scale)
                   \/ lt(df.close[i], df.ema_fast[i]))]),
     exit_short |-> column([i \in 1..Len(df.close) |-> 0])] @@ df

\* --- user_data/ab_breakout/ab_breakout-2025-08-10_15-41-40_NewsHeliusBitqueryML.py ---

\* populate_indicators; the sign of pct_change(5) of the positive ema200_5m is
\* the sign of its difference over 5 rows; atr_pct 0.0001 and 0.100 are 10 and
\* 10000 PctScale units
ab_populate_indicators(df) ==
    LET n == Len(df.close)
        ema_fast == ewm_span(df.close, 50)
        prev_ema_fast == shift(ema_fast)
        macd_fast == ewm_span(df.close, 12)
        macd_slow == ewm_span(df.close, 26)
        macd == column([i \in 1..n |-> macd_fast[i] - macd_slow[i]])
        macd_sig == ewm_span(macd, 9)
        macd_hist == column([i \in 1..n |-> macd[i] - macd_sig[i]])
        delta == diff(df.close)
        gain == column([i \in 1..n |-> IF delta[i] = NaN THEN NaN ELSE Max(delta[i], 0)])
        loss == column([i \in 1..n |-> IF delta[i] = NaN THEN NaN ELSE 0 - Min(delta[i], 0)])
        atr == ewm(column([i \in 1..n |-> true_range_np(df, i)]), 1, 14, 0)
        ratio == atr_over_close(atr, df.close)
        atr_pct == column([i \in 1..n |-> IF ratio[i] = NaN THEN NaN ELSE Max(ratio[i], 0)])
        ema200_5m == ewm_span(df.close, 200)
        rising(i) == i > 5 /\ ema200_5m[i] > ema200_5m[i - 5]
        falling(i) == i > 5 /\ ema200_5m[i] < ema200_5m[i - 5]
        ind == [ema_fast |-> ema_fast,
                ema_slow |-> ewm_span(df.close, 200),
                ema_fast_slope |-> column([i \in 1..n |->
                    IF prev_ema_fast[i] = NaN THEN NaN ELSE ema_fast[i] - prev_ema_fast[i]]),
                macd |-> macd, macd_sig |-> macd_sig, macd_hist |-> macd_hist,
                macd_hist_slope |-> diff(macd_hist),
                rsi |-> rsi_fillna50(ewm(gain, 1, 14, 0), ewm(loss, 1, 14, 0)),
                atr |-> atr,
                atr_pct |-> atr_pct,
                vol_ok |-> column([i \in 1..n |->
                    astype_int(ge(atr_pct[i], 10) /\ le(atr_pct[i], 10000))]),
                donch_hi |-> rolling_max(df.high, 20),
                donch_lo |-> rolling_min(df.low, 20),
                ema200_5m |-> ema200_5m,
                regime_long |-> column([i \in 1..n |->
                    astype_int(df.close[i] > ema200_5m[i] /\ rising(i))]),
                regime_short |-> column([i \in 1..n |->
                    astype_int(df.close[i] < ema200_5m[i] /\ falling(i))])] @@ df
    IN  fill(ind)

\* populate_entry_trend with the two Donchian bands exchanged: long above the
\* lower band, short below the upper band
ab_populate_entry_trend_SwappedBands(df, entry_mode) ==
    LET donch_hi_prev == shift(df.donch_hi)
        donch_lo_prev == shift(df.donch_lo)
    IN  [enter_long |-> column([i \in 1..Len(df.close) |->
            astype_int(df.vol_ok[i] = 1 /\ gt(df.close[i], donch_lo_prev[i]))]),
         enter_short |-> column([i \in 1..Len(df.close) |->
            astype_int(df.vol_ok[i] = 1 /\ lt(df.close[i], donch_hi_prev[i]))])] @@ df

\* populate_entry_trend: near_ema is |close / ema_fast - 1| <= 0.01
ab_populate_entry_trend(df, entry_mode) ==
    LET n == Len(df.close)
        donch_hi_prev == shift(df.donch_hi)
        donch_lo_prev == shift(df.donch_lo)
        near_ema(i) ==
            LET dev == Max(df.close[i], df.ema_fast[i]) - Min(df.close[i], df.ema_fast[i])
            IN  dev * 100 <= df.ema_fast[i]
        long_cond(i) ==
            IF entry_mode = "breakout"
            THEN df.vol_ok[i] = 1 /\ gt(df.close[i], donch_hi_prev[i])
            ELSE df.vol_ok[i] = 1 /\ near_ema(i) /\ gt(df.rsi[i], 50 * Scale)
        short_cond(i) ==
            IF entry_mode = "breakout"
            THEN df.vol_ok[i] = 1 /\ lt(df.close[i], donch_lo_prev[i])
            ELSE df.vol_ok[i] = 1 /\ near_ema(i) /\ lt(df.rsi[i], 50 * Scale)
    IN  [enter_long |-> column([i \in 1..n |-> astype_int(long_cond(i))]),
         enter_short |-> column([i \in 1..n |-> astype_int(short_cond(i))])] @@ df

\* populate_exit_trend
ab_populate_exit_trend(df) ==
    [exit_long |-> column([i \in 1..Len(df.close) |->
        astype_int(\/ gt(df.rsi[i], 68 * Scale)
                   \/ lt(df.macd_hist[i], 0)
                   \/ lt(df.close[i], df.ema_fast[i]))]),
     exit_short |-> column([i \in 1..Len(df.close) |->
        astype_int(\/ lt(df.rsi[i], 32 * Scale)
                   \/ gt(df.macd_hist[i], 0)
                   \/ gt(df.close[i], df.ema_fast[i]))])] @@ df

\* --- user_data/backtest_trades-2025-08-09_20-47-59_NewsHeliusBitqueryML.py ---

\* populate_indicators: _rsi and _atr compute what calculate_rsi and
\* calculate_atr compute (the 1e-9 put for a zero ma_down is below the
\* resolution); vol_frac is atr / close with fillna(0); every hour is tradable
backtest2047_populate_indicators(df) ==
    LET n == Len(df.close)
        atr == calculate_atr(df, 14).atr
        ratio == atr_over_close(atr, df.close)
        ind == [ema_fast |-> ewm_span(df.close, 50),
                ema_slow |-> ewm_span(df.close, 200),
                rsi |-> calculate_rsi(df, 14).rsi,
                atr |-> atr,
                vol_frac |-> column([i \in 1..n |-> IF ratio[i] = NaN THEN 0 ELSE ratio[i]]),
                tradable_hour |-> column([i \in 1..n |-> 1])] @@ df
    IN  dropna(dataframe([c \in DOMAIN ind |-> ffill(ind[c])]))

\* populate_entry_trend: vol_min 0.0025 is 250 PctScale units
backtest2047_populate_entry_trend(df) ==
    LET prev_rsi == shift(df.rsi)
    IN  [enter_long |-> column([i \in 1..Len(df.close) |->
            astype_int(/\ gt(df.ema_fast[i], df.ema_slow[i])
                       /\ gt(df.vol_frac[i], 250)
                       /\ lt(prev_rsi[i], 40 * Scale) /\ ge(df.rsi[i], 40 * Scale)
                       /\ df.tradable_hour[i] = 1)]),
         enter_short |-> column([i \in 1..Len(df.close) |->
            astype_int(/\ lt(df.ema_fast[i], df.ema_slow[i])
                       /\ gt(df.vol_frac[i], 250)
                       /\ gt(prev_rsi[i], 60 * Scale) /\ le(df.rsi[i], 60 * Scale)
                       /\ df.tradable_hour[i] = 1)])] @@ df

\* populate_exit_trend
backtest2047_populate_exit_trend(df) ==
    [exit_long |-> column([i \in 1..Len(df.close) |->
        astype_int(gt(df.rsi[i], 70 * Scale) \/ lt(df.close[i], df.ema_fast[i]))]),
     exit_short |-> column([i \in 1..Len(df.close) |->
        astype_int(lt(df.rsi[i], 30 * Scale) \/ gt(df.close[i], df.ema_fast[i]))])] @@ df

\* --- user_data/strategies/IntradayScalp5m.py ---

\* the defaults of the hyperoptable parameters: atr_mult in tenths, atr_min_pct
\* and atr_max_pct in PctScale units, vol_q_thres in percent
scalp_params ==
    [atr_mult |-> 12, atr_min_pct |-> 200, atr_max_pct |-> 1200,
     vol_q_window |-> 144, vol_q_thres |-> 60]

\* vol_q is kept with VolQScale units to one unit of volume
VolQScale == 100

\* the value of rank k (from 0) among the values of col[a..b] in ascending order
sorted_at(col, a, b, k) ==
    SetMin({v \in {col[j] : j \in a..b} :
               Cardinality({j \in a..b : col[j] <= v}) >= k + 1})

\* Series.rolling(window, min_periods=window).quantile(q), linear interpolation
\* between the two ranks around q * (window - 1); q in percent
rolling_quantile(col, window, q) ==
    LET pos == q * (window - 1)
        lo_rank == pos \div 100
        frac == pos % 100
        hi_rank == IF frac = 0 THEN lo_rank ELSE lo_rank + 1
    IN  column([i \in 1..Len(col) |->
            IF i < window \/ \E j \in (i - window + 1)..i : col[j] = NaN THEN NaN
            ELSE LET lo == sorted_at(col, i - window + 1, i, lo_rank)
                     hi == sorted_at(col, i - window + 1, i, hi_rank)
                 IN  lo * VolQScale + (frac * (hi - lo) * VolQScale) \div 100])

\* populate_indicators
scalp_populate_indicators(df) ==
    LET n == Len(df.close)
        ema20 == ewm_span(df.close, 20)
        atr == ewm(column([i \in 1..n |-> true_range_np(df, i)]), 1, 14, 0)
        band == column([i \in 1..n |-> IF atr[i] = NaN THEN NaN ELSE (scalp_params.atr_mult * atr[i]) \div 10])
        vol_q == rolling_quantile(df.volume, scalp_params.vol_q_window, scalp_params.vol_q_thres)
        hours == column([i \in 1..n |-> dt_hour(df.date[i])])
    IN  fill([ema20 |-> ema20,
              atr |-> atr,
              atr_pct |-> atr_over_close(atr, df.close),
              kc_upper |-> column([i \in 1..n |-> IF band[i] = NaN THEN NaN ELSE ema20[i] + band[i]]),
              kc_lower |-> column([i \in 1..n |-> IF band[i] = NaN THEN NaN ELSE ema20[i] - band[i]]),
              vol_q |-> vol_q,
              vol_ok |-> column([i \in 1..n |-> astype_int(ge(df.volume[i] * VolQScale, vol_q[i]))]),
              in_session |-> column([i \in 1..n |-> astype_int(hours[i] >= 7 /\ hours[i] <= 20)])] @@ df)

\* populate_entry_trend without the volume flag among the base filters
scalp_populate_entry_trend_NoVolumeGate(df) ==
    LET n == Len(df.close)
        vol_ok(i) == /\ ge(df.atr_pct[i], scalp_params.atr_min_pct)
                     /\ le(df.atr_pct[i], scalp_params.atr_max_pct)
        base_filters(i) == vol_ok(i) /\ df.in_session[i] = 1
        prev_close == shift(df.close)
        prev_kc_lower == shift(df.kc_lower)
        prev_kc_upper == shift(df.kc_upper)
        long_revert(i) == lt(prev_close[i], prev_kc_lower[i]) /\ gt(df.close[i], df.kc_lower[i])
        short_revert(i) == gt(prev_close[i], prev_kc_upper[i]) /\ lt(df.close[i], df.kc_upper[i])
    IN  [enter_long |-> column([i \in 1..n |-> astype_int(base_filters(i) /\ long_revert(i))]),
         enter_short |-> column([i \in 1..n |-> astype_int(base_filters(i) /\ short_revert(i))])] @@ df

\* populate_entry_trend with the upper bound of the volatility band left out
scalp_populate_entry_trend_NoMaxVolatility(df) ==
    LET n == Len(df.close)
        vol_ok(i) == ge(df.atr_pct[i], scalp_params.atr_min_pct)
        base_filters(i) == vol_ok(i) /\ df.vol_ok[i] = 1 /\ df.in_session[i] = 1
        prev_close == shift(df.close)
        prev_kc_lower == shift(df.kc_lower)
        prev_kc_upper == shift(df.kc_upper)
        long_revert(i) == lt(prev_close[i], prev_kc_lower[i]) /\ gt(df.close[i], df.kc_lower[i])
        short_revert(i) == gt(prev_close[i], prev_kc_upper[i]) /\ lt(df.close[i], df.kc_upper[i])
    IN  [enter_long |-> column([i \in 1..n |-> astype_int(base_filters(i) /\ long_revert(i))]),
         enter_short |-> column([i \in 1..n |-> astype_int(base_filters(i) /\ short_revert(i))])] @@ df

\* populate_entry_trend
scalp_populate_entry_trend(df) ==
    LET n == Len(df.close)
        vol_ok(i) == /\ ge(df.atr_pct[i], scalp_params.atr_min_pct)
                     /\ le(df.atr_pct[i], scalp_params.atr_max_pct)
        base_filters(i) == vol_ok(i) /\ df.vol_ok[i] = 1 /\ df.in_session[i] = 1
        prev_close == shift(df.close)
        prev_kc_lower == shift(df.kc_lower)
        prev_kc_upper == shift(df.kc_upper)
        long_revert(i) == lt(prev_close[i], prev_kc_lower[i]) /\ gt(df.close[i], df.kc_lower[i])
        short_revert(i) == gt(prev_close[i], prev_kc_upper[i]) /\ lt(df.close[i], df.kc_upper[i])
    IN  [enter_long |-> column([i \in 1..n |-> astype_int(base_filters(i) /\ long_revert(i))]),
         enter_short |-> column([i \in 1..n |-> astype_int(base_filters(i) /\ short_revert(i))])] @@ df

\* populate_exit_trend
scalp_populate_exit_trend(df) ==
    [exit_long |-> column([i \in 1..Len(df.close) |-> 0]),
     exit_short |-> column([i \in 1..Len(df.close) |-> 0])] @@ df

\* --- the decision pass of a variant ---

\* a candle series of base 1000 that jumps by `jump` at candle JumpAt
VariantSeries(d, j, w, v) ==
    [base |-> 1000, drift |-> d, jump_at |-> JumpAt, jump |-> j, wick |-> w,
     volume |-> IF v < 0 THEN 100 ELSE 10, volume_step |-> v, start_minute |-> 300,
     bend_at |-> 0, bend_drift |-> 0, resume_at |-> 0, resume_drift |-> 0]

\* the candle series and configurations the variants are run on: a flat series
\* that dips, a falling series that breaks out, a rising series that dips, a
\* falling series that spikes and a rising series that turns down for 22
\* candles and then rises again; informative is read by planB only, entry_mode
\* by planB and the ab_breakout copy
VariantFeeds ==
    {series @@ [informative |-> inf, entry_mode |-> mode] :
        series \in {VariantSeries(0, 0 - 10, w, v) : w \in {0, 2, 10}, v \in {0 - 1, 1}}
                   \cup {VariantSeries(0 - 1, 200, w, 1) : w \in {2, 10}}
                   \cup {VariantSeries(1, 0 - 25, 10, 1), VariantSeries(0 - 1, 25, 10, 1),
                         VariantSeries(0 - 1, 25, 2, 1)}
                   \cup {[VariantSeries(10, 0, 10, 1) EXCEPT
                             !.bend_at = 118, !.bend_drift = 0 - 10,
                             !.resume_at = 140, !.resume_drift = 10]},
        inf \in {"none", "down"}, mode \in EntryModes}

\* one decision pass of variant st over the candles cs
VariantPass(st, cs, informative, entry_mode) ==
    LET df == DataFrame(cs, TRUE)
    IN  CASE st = "backtest_trades-2025-08-09_12-09-03_NewsHeliusBitqueryML" ->
                backtest_populate_exit_trend(
                    backtest_populate_entry_trend(backtest_populate_indicators(df)))
          [] st = "NewsHeliusBitqueryML_Hyperopt" ->
                hyperopt_populate_exit_trend(
                    hyperopt_populate_entry_trend(hyperopt_populate_indicators(df)))
          [] st = "NewsHeliusBitqueryML.backup.planB" ->
                planB_populate_exit_trend(
                    planB_populate_entry_trend(
                        planB_populate_indicators(df, informative), entry_mode))
          [] st = "IntradayScalp5m" ->
                scalp_populate_exit_trend(
                    scalp_populate_entry_trend(scalp_populate_indicators(df)))
          [] st = "ab_breakout-2025-08-10_15-41-40_NewsHeliusBitqueryML" ->
                ab_populate_exit_trend(
                    ab_populate_entry_trend(ab_populate_indicators(df), entry_mode))
          [] st = "backtest_trades-2025-08-09_20-47-59_NewsHeliusBitqueryML" ->
                backtest2047_populate_exit_trend(
                    backtest2047_populate_entry_trend(backtest2047_populate_indicators(df)))
          [] OTHER ->
                main_populate_exit_trend(
                    main_populate_entry_trend(main_populate_indicators(df)))

\* the first decision pass of a variant is over the startup candles
VariantInit ==
    /\ strategy \in StrategyVariants
    /\ feed \in VariantFeeds
    /\ strategy # "NewsHeliusBitqueryML.backup.planB" => feed.informative = "none"
    /\ strategy \notin {"NewsHeliusBitqueryML.backup.planB",
                        "ab_breakout-2025-08-10_15-41-40_NewsHeliusBitqueryML"}
           => feed.entry_mode = "breakout"
    /\ has_date = TRUE
    /\ wall_hour = 12
    /\ candles = [k \in 1..StartupRows |-> VariantCandle(feed, k)]
    /\ frame = VariantPass(strategy, candles, feed.informative, feed.entry_mode)

\* a candle closes: the variant is run over the longer series
NewVariantCandle ==
    /\ Len(candles) < feed.jump_at + TailRows
    /\ candles' = Append(candles, VariantCandle(feed, Len(candles) + 1))
    /\ frame' = VariantPass(strategy, candles', feed.informative, feed.entry_mode)
    /\ UNCHANGED <<strategy, feed, has_date, wall_hour>>
    /\ UNCHANGED <<cacheVars, mlVars, guardVars, requestVars, monitorVars>>

(* The remote requests of one call of get_signal / get_sentiment_signal.    *)
(* A call that misses the cache sends its sub-queries one after the other; *)
(* each request is in flight until the endpoint answers or the timeout     *)
(* given to requests expires.  The endpoint is free never to answer.       *)
(***************************************************************************)

\* timeout= of the requests, in seconds
BITQUERY_REQUEST_TIMEOUT == 15
HELIUS_REQUEST_TIMEOUT == 10

\* the timeout the request of a generator carries; NewsSentimentAnalyzer
\* calls session.get(url, params=params) with no timeout, and requests then
\* waits without limit
request_timeout(src) ==
    CASE src = "bitquery" -> BITQUERY_REQUEST_TIMEOUT
      [] src = "helius"   -> HELIUS_REQUEST_TIMEOUT
      [] src = "news"     -> None

\* the number of sub-queries of one computation
SubQueries(src) ==
    CASE src = "bitquery" -> 4
      [] src = "helius"   -> 3
      [] src = "news"     -> 1

\* what the endpoint may answer to a request
Answers(src) ==
    IF src = "news" THEN {Failure("error"), Payload(50, 0), Payload(0 - 50, 0), Payload(30, 0)}
    ELSE {Failure("error"), Payload(3000000, 0), Payload(0, 3000000), Payload(3000000, 1000000),
          Payload(1, 0)}

\* requests.exceptions.Timeout, caught by "except Exception" of the sub-query
TimedOut == Failure("error")

NotCalled == [at |-> "idle", key |-> <<"-", 0>>, resp |-> << >>, waited |-> 0,
              sent |-> 0, timed_out |-> 0, ret |-> 0]

RequestIdle == call = NotCalled

\* the call goes on after the request in flight has ended with r: the next
\* sub-query is sent, or the sub-scores are complete
Received(r) ==
    LET resp == Append(call.resp, r)
    IN  IF Len(resp) < SubQueries(source)
        THEN [call EXCEPT !.resp = resp, !.waited = 0, !.sent = @ + 1]
        ELSE [call EXCEPT !.resp = resp, !.waited = 0, !.at = "computing"]

\* get_signal is called: the cache check, and on a miss the first request
BeginCall(trading_pair) ==
    /\ call.at \in {"idle", "returned"}
    /\ ncalls < MaxCalls
    /\ ncalls' = ncalls + 1
    /\ LET key == CacheKey(source, trading_pair, now)
       IN  call' = IF key \in DOMAIN cache
                   THEN [NotCalled EXCEPT !.at = "returned", !.key = key, !.ret = cache[key]]
                   ELSE IF SendsRequests(source, api_key)
                   THEN [NotCalled EXCEPT !.at = "waiting", !.key = key, !.sent = 1]
                   ELSE [NotCalled EXCEPT !.at = "computing", !.key = key,
                                          !.resp = [i \in 1..SubQueries(source) |-> Failure("error")]]
    /\ UNCHANGED <<source, api_key, now, cache, hist, last, remote_ok, pc>>
    /\ UNCHANGED <<mlVars, guardVars, frameVars, monitorVars>>

\* the endpoint answers the request in flight
Respond(r) ==
    /\ call.at = "waiting"
    /\ call' = Received(r)
    /\ UNCHANGED <<cacheVars, mlVars, guardVars, frameVars, monitorVars>>

\* WaitTick seconds of the request's timeout pass with the request in flight
\* unanswered; a request without a timeout has no timer running
Wait ==
    /\ call.at = "waiting"
    /\ request_timeout(source) # None
    /\ call.waited < request_timeout(source)
    /\ call' = [call EXCEPT !.waited = @ + WaitTick]
    /\ UNCHANGED <<cacheVars, mlVars, guardVars, frameVars, monitorVars>>

\* the timeout of the request in flight expires: requests raises, the
\* sub-query's handler returns the neutral sub-score and the call goes on
Expire ==
    /\ call.at = "waiting"
    /\ request_timeout(source) # None
    /\ call.waited >= request_timeout(source)
    /\ call' = [Received(TimedOut) EXCEPT !.timed_out = @ + 1]
    /\ UNCHANGED <<cacheVars, mlVars, guardVars, frameVars, monitorVars>>

\* the combination of the sub-scores, the cache write and the return
Return ==
    /\ call.at = "computing"
    /\ LET out == Compute(source, api_key, call.resp)
           r == Handler(out)
       IN  /\ cache' = IF out.raised THEN cache
                       ELSE [k \in DOMAIN cache \cup {call.key} |->
                                IF k = call.key THEN out.value ELSE cache[k]]
           /\ call' = [call EXCEPT !.at = "returned", !.ret = r.ret]
    /\ UNCHANGED <<source, api_key, now, hist, last, ncalls, remote_ok, pc>>
    /\ UNCHANGED <<mlVars, guardVars, frameVars, monitorVars>>

RequestNext ==
    \/ \E p \in Pairs(source) : BeginCall(p)
    \/ \E r \in Answers(source) : Respond(r)
    \/ Wait
    \/ Expire
    \/ Return

----------------------------------------------------------------------------
\* C9: two decision passes over the identical candle sequence yield identical
\* enter_long / enter_short / exit_long / exit_short values on every bar,
\* whatever the wall-clock time and whatever ran before.
C9_Deterministic ==
    [][candles' = candles => Decisions(frame') = Decisions(frame)]_vars

\* the indicator columns a strategy's populate_indicators returns
IndicatorColumns == {"rsi", "atr", "adx", "vol_frac", "vol_ok"}

\* C10: appending a candle never changes the indicator values of an earlier
\* row, warm-up rows included: row i is a function of candles 0..i only.
C10_NoLookahead ==
    [][Len(candles') = Len(candles) + 1 =>
          \A c \in IndicatorColumns \cap DOMAIN frame :
              \A i \in 1..Len(candles) : frame'[c][i] = frame[c][i]]_vars

\* C11: on every bar where RSI(14) or ATR(14) is still in warm-up (bars 0..12),
\* NewsHeliusBitqueryML.populate_entry_trend yields enter_long = 0 and
\* enter_short = 0.
C11_NoEntryInWarmup ==
    strategy = "NewsHeliusBitqueryML" =>
        \A i \in 1..Min(Len(candles), buy_params.rsi_period - 1) :
            frame.enter_long[i] = 0 /\ frame.enter_short[i] = 0

\* the four conditions of a long entry and of a short entry on row i of frame f
LongConfluence(f, i) ==
    /\ gt(f.ema50[i], f.ema200[i])
    /\ f.vol_ok[i] = 1
    /\ i > 1 /\ gt(f.macd[i], f.macd_sig[i]) /\ le(f.macd[i - 1], f.macd_sig[i - 1])
    /\ gt(f.rsi[i], 45 * Scale)

ShortConfluence(f, i) ==
    /\ lt(f.ema50[i], f.ema200[i])
    /\ f.vol_ok[i] = 1
    /\ i > 1 /\ lt(f.macd[i], f.macd_sig[i]) /\ ge(f.macd[i - 1], f.macd_sig[i - 1])
    /\ lt(f.rsi[i], 55 * Scale)

\* C12: in NewsHeliusBitqueryML enter_long[i] = 1 exactly when ema50 > ema200,
\* vol_ok, a MACD cross above the signal at bar i and rsi > 45 all hold, and
\* enter_short[i] = 1 exactly on the mirror image; exit_long[i] = 1 exactly when
\* macd < macd_sig or rsi < 50, exit_short[i] = 1 exactly when macd > macd_sig or
\* rsi > 50.
C12_ConfluenceEntrySingleExit ==
    strategy = "NewsHeliusBitqueryML" =>
        \A i \in 1..Len(candles) :
            /\ frame.enter_long[i] = astype_int(LongConfluence(frame, i))
            /\ frame.enter_short[i] = astype_int(ShortConfluence(frame, i))
            /\ frame.exit_long[i] =
                   astype_int(lt(frame.macd[i], frame.macd_sig[i]) \/ lt(frame.rsi[i], 50 * Scale))
            /\ frame.exit_short[i] =
                   astype_int(gt(frame.macd[i], frame.macd_sig[i]) \/ gt(frame.rsi[i], 50 * Scale))

\* a long entry on a MACD cross, followed by a bar that keeps macd above its
\* signal with trend, volatility and rsi still in favour and no entry; an exit
\* raised by rsi alone
C12_Witness ==
    /\ strategy = "NewsHeliusBitqueryML"
    /\ \E i \in 2..Len(candles) :
           /\ frame.enter_long[i - 1] = 1
           /\ frame.enter_long[i] = 0
           /\ gt(frame.ema50[i], frame.ema200[i]) /\ frame.vol_ok[i] = 1
           /\ gt(frame.macd[i], frame.macd_sig[i]) /\ gt(frame.rsi[i], 45 * Scale)
           /\ frame.exit_short[i] = 1 /\ frame.exit_long[i] = 0

\* C13: a strategy variant whose can_short is False has enter_short = 0 on
\* every bar of every frame it returns (a column it does not write counts as 0).
C13_NoShortWithoutCanShort ==
    ~can_short(strategy) =>
        \A i \in 1..Len(frame.close) : Column(frame, "enter_short")[i] = 0

\* the backtest variant, run past its startup candles, on a bar where the mirror
\* image of its long conditions holds (trend down, weak rsi, volatility and
\* volume in favour), with no short entry
C13_Witness ==
    /\ strategy = "backtest_trades-2025-08-09_12-09-03_NewsHeliusBitqueryML"
    /\ Len(candles) > StartupRows
    /\ \E i \in 1..Len(frame.close) :
           /\ lt(frame.ema_fast[i], frame.ema_slow[i])
           /\ lt(frame.rsi[i], 45 * Scale)
           /\ gt(frame.atr_pct[i], 250)
           /\ frame.vol_ok[i] = 1
           /\ frame.enter_short[i] = 0

\* the volume flag of the candles cs: volume >= rolling quantile(window, q) with
\* the window and threshold IntradayScalp5m configures; 0 while the quantile is
\* undefined
volume_quantile_flag(cs) ==
    LET volume == column([i \in 1..Len(cs) |-> cs[i].volume])
        vol_q == rolling_quantile(volume, scalp_params.vol_q_window, scalp_params.vol_q_thres)
    IN  column([i \in 1..Len(cs) |-> astype_int(ge(volume[i] * VolQScale, vol_q[i]))])

\* the frame has no entry on any bar
NoEntries ==
    \A i \in 1..Len(frame.close) :
        Column(frame, "enter_long")[i] = 0 /\ Column(frame, "enter_short")[i] = 0

\* the rolling quantile is defined on the last bars and the volume is below it
\* on every bar
VolumeBelowQuantile ==
    LET flag == volume_quantile_flag(candles)
    IN  /\ Len(candles) >= scalp_params.vol_q_window
        /\ \A i \in 1..Len(candles) : flag[i] = 0

\* C14 as stated: in IntradayScalp5m and in NewsHeliusBitqueryML, a series whose
\* volume is below the rolling volume quantile on every bar has enter_long =
\* enter_short = 0 on every bar.
C14_VolumeGate ==
    strategy \in {"IntradayScalp5m", "NewsHeliusBitqueryML"} =>
        (VolumeBelowQuantile => NoEntries)

\* C14, amended: in IntradayScalp5m a bar whose volume is below the rolling
\* volume quantile (or whose quantile is still undefined) has enter_long =
\* enter_short = 0, so a series below the quantile on every bar has no entry.
C14_VolumeGateAmended ==
    strategy = "IntradayScalp5m" =>
        LET flag == volume_quantile_flag(candles)
        IN  /\ \A i \in 1..Len(candles) :
                   flag[i] = 0 => frame.enter_long[i] = 0 /\ frame.enter_short[i] = 0
            /\ VolumeBelowQuantile => NoEntries

\* IntradayScalp5m over a series with falling volume, the quantile defined: a bar
\* in session, inside the volatility band, on which close comes back above the
\* lower Keltner band, and no entry on any bar
C14_Witness ==
    /\ strategy = "IntradayScalp5m"
    /\ VolumeBelowQuantile
    /\ \E i \in 2..Len(candles) :
           /\ i >= scalp_params.vol_q_window
           /\ frame.in_session[i] = 1
           /\ ge(frame.atr_pct[i], scalp_params.atr_min_pct)
           /\ le(frame.atr_pct[i], scalp_params.atr_max_pct)
           /\ lt(frame.close[i - 1], frame.kc_lower[i - 1])
           /\ gt(frame.close[i], frame.kc_lower[i])
    /\ NoEntries

\* the strategies whose volatility filter is compared with a band
BandStrategies == {"IntradayScalp5m", "NewsHeliusBitqueryML", "NewsHeliusBitqueryML.backup.planB"}

\* atr / close of bar i of the frame in PctScale units: the atr_pct column, or
\* atr / close where the strategy keeps the ratio in no column
frame_atr_pct(i) ==
    IF "atr_pct" \in DOMAIN frame THEN frame.atr_pct[i]
    ELSE IF frame.atr[i] = NaN \/ frame.close[i] = NaN THEN NaN
    ELSE (frame.atr[i] * PctScale) \div frame.close[i]

\* the lower limits a strategy compares atr / close with, in PctScale units
configured_atr_min(st) ==
    CASE st = "IntradayScalp5m" -> {scalp_params.atr_min_pct}
      [] st = "NewsHeliusBitqueryML.backup.planB" -> {planB_params.atr_min_pct}
      [] st = "NewsHeliusBitqueryML" -> {150}
      [] OTHER -> {}

\* the upper limits a strategy compares atr / close with, in PctScale units
configured_atr_max(st) ==
    IF st = "IntradayScalp5m" THEN {scalp_params.atr_max_pct} ELSE {}

EntryAt(i) == frame.enter_long[i] = 1 \/ Column(frame, "enter_short")[i] = 1

C16_EventuallyReturns == (call.at \in {"waiting", "computing"}) ~> (call.at = "returned")

\* C16 for the generators whose requests carry a timeout
C16_TimedCallsReturn ==
    (request_timeout(source) # None /\ call.at \in {"waiting", "computing"}) ~> (call.at = "returned")

\* C16: a request is sent once per sub-query, a timed-out request counts as a
\* failed one, and a call whose requests all timed out returns 0
C16_TimeoutIsNeutral ==
    /\ call.sent <= SubQueries(source)
    /\ call.timed_out <= call.sent
    /\ (call.at = "returned" /\ call.timed_out = SubQueries(source)) => call.ret = 0

\* C17: bucket expiry is a plain cache miss.  In every (asset, bucket) in which
\* a call was made a computation ran, so the first call of a new bucket
\* recomputes; it neither fails nor returns the entry of an older bucket: a
\* call answered from the cache returns the value a computation of its own
\* bucket wrote, less than cache_ttl seconds before.
C17_BucketExpiry ==
    /\ \A k \in Slots : hist[k].calls >= 1 => hist[k].computed >= 1
    /\ ~last.escaped
    /\ \A k \in DOMAIN cache :
           /\ k \in Slots
           /\ hist[k].completed >= 1
           /\ Bucket(source, hist[k].computed_at) = k[2]
           /\ hist[k].served = {cache[k]}
    /\ last.hit =>
           LET h == hist[last.slot]
           IN  /\ h.completed >= 1
               /\ h.served = {last.ret}
               /\ Bucket(source, h.computed_at) = last.slot[2]
               /\ h.computed_at <= now
               /\ (last.slot[2] = Bucket(source, now) => now - h.computed_at < cache_ttl(source))

\* an asset has an entry of an older bucket holding 1; the first call of the
\* current bucket recomputed and got -1, and the last call, in that bucket at
\* a later time, was answered -1 from the cache
C17_Witness ==
    /\ last.hit
    /\ last.ret = 0 - 1
    /\ last.slot[2] = Bucket(source, now)
    /\ last.slot[2] >= 1
    /\ hist[last.slot].computed_at < now
    /\ \E k \in DOMAIN cache :
           /\ k[1] = last.slot[1]
           /\ k[2] < last.slot[2]
           /\ cache[k] = 1

\* the call that has just returned ran its computation (no cache hit)
ReturnedComputed == call.at = "returned" /\ Len(call.resp) = SubQueries(source)

Negated(s) == [i \in DOMAIN s |-> 0 - s[i]]

\* C18: the result of every call is in {-1, 0, 1}; a computed result is 1
\* exactly when the combined weighted score is above the generator's threshold
\* T, -1 exactly when it is below -T and 0 otherwise; the sub-scores negated
\* give the negated result.
C18_SymmetricThresholds ==
    /\ call.ret \in {0 - 1, 0, 1}
    /\ \A k \in DOMAIN cache : cache[k] \in {0 - 1, 0, 1}
    /\ ReturnedComputed =>
           LET s == SubScores(source, api_key, call.resp)
               c == CombinedSignal(source, s)
               T == SignalThreshold(source)
           IN  /\ (call.ret = 1) <=> (c > T)
               /\ (call.ret = 0 - 1) <=> (c < 0 - T)
               /\ (call.ret = 0) <=> (c <= T /\ c >= 0 - T)
               /\ Discretize(CombinedSignal(source, Negated(s)), T) = 0 - call.ret

\* a computed result of 0 whose combined score is exactly T, with a non-zero
\* sub-score (Bitquery: 0.25 + 0.25 = 0.5; news: 0.3)
C18_Witness ==
    /\ ReturnedComputed
    /\ call.ret = 0
    /\ CombinedSignal(source, SubScores(source, api_key, call.resp)) = SignalThreshold(source)

\* the sub-queries of a Bitquery computation have all been answered
BitqueryAnswered == source = "bitquery" /\ Len(call.resp) = SubQueries(source)

TotalVolume(r) == r.a + r.b

\* C19: the weights of the four Bitquery sub-scores sum to 1.0, every sub-score
\* is in [-1, 1] and so is the combined score; and every sub-score is 0 when
\* the total volume under it is below the materiality threshold: a volume
\* below large_flow_threshold, the smallest threshold the generator
\* configures, moves no sub-score.
C19_WeightsBoundsMateriality ==
    /\ bq_weights[1] + bq_weights[2] + bq_weights[3] + bq_weights[4] = 100
    /\ BitqueryAnswered =>
           LET s == bq_sub_scores(call.resp)
           IN  /\ \A i \in 1..4 : s[i] >= 0 - 100 /\ s[i] <= 100
               /\ bq_combined_signal(s) >= 0 - 10000 /\ bq_combined_signal(s) <= 10000
               /\ \A i \in 1..4 :
                      (~Failed(call.resp[i]) /\ TotalVolume(call.resp[i]) < large_flow_threshold)
                          => s[i] = 0

\* C19 as the code has it: the weights sum to 1.0, the sub-scores and the
\* combined score are in [-1, 1], and a sub-score is 0 when its total volume
\* does not exceed the threshold its own code tests, which is 0 for the whale
\* sub-score.
C19_WeightsBoundsThresholds ==
    /\ bq_weights[1] + bq_weights[2] + bq_weights[3] + bq_weights[4] = 100
    /\ BitqueryAnswered =>
           LET s == bq_sub_scores(call.resp)
           IN  /\ \A i \in 1..4 : s[i] >= 0 - 100 /\ s[i] <= 100
               /\ bq_combined_signal(s) >= 0 - 10000 /\ bq_combined_signal(s) <= 10000
               /\ \A i \in 1..4 :
                      (~Failed(call.resp[i]) /\ TotalVolume(call.resp[i]) <= bq_materiality_threshold(i))
                          => s[i] = 0

\* predict reached the ensemble: the model is trained and not stale, the
\* features of the last row are complete and the estimators are fitted
Evaluated ==
    /\ prediction.called
    /\ is_trained /\ ~Stale(now) /\ Fitted
    /\ prediction.features = "ok"

\* C20: for a trained, non-stale model the direction is 1 exactly when the
\* averaged prob_up is above prediction_threshold, -1 exactly when that fails
\* and the averaged prob_down is above it, and otherwise 0 with confidence
\* max(prob_up, prob_down); every result has its direction in {-1, 0, 1} and
\* its confidence in [0, 1], and a non-zero direction carries a confidence
\* above prediction_threshold.  (Probabilities and confidence are doubled
\* percentages: prob_up = up2 / 200.)
C20_EnsembleDecision ==
    /\ prediction.signal \in {0 - 1, 0, 1}
    /\ prediction.confidence >= 0 /\ prediction.confidence <= 200
    /\ prediction.signal # 0 => prediction.confidence > 2 * prediction_threshold
    /\ Evaluated =>
           LET up2 == prediction.up2
               down2 == 200 - prediction.up2
           IN  /\ (prediction.signal = 1) <=> (up2 > 2 * prediction_threshold)
               /\ (prediction.signal = 0 - 1) <=>
                      (~(up2 > 2 * prediction_threshold) /\ down2 > 2 * prediction_threshold)
               /\ prediction.signal = 1 => prediction.confidence = up2
               /\ prediction.signal = 0 - 1 => prediction.confidence = down2
               /\ prediction.signal = 0 => prediction.confidence = Max(up2, down2)

\* a model trained in this run, not stale, is asked with complete features
\* and an averaged prob_up of exactly prediction_threshold: the result is
\* direction 0 with confidence prob_up
C20_Witness ==
    /\ Evaluated
    /\ train_count >= 1
    /\ prediction.up2 = 2 * prediction_threshold
    /\ prediction.signal = 0
    /\ prediction.confidence = 2 * prediction_threshold

\* the rsi column calculate_rsi gives for the candles received, before any fill
raw_rsi == calculate_rsi(DataFrame(candles, has_date), buy_params.rsi_period).rsi

\* C21: RSI is within [0, 100] on every row where it is defined, and it is
\* defined on every row past the warm-up of rsi_period price changes.
C21_RsiBounded ==
    /\ LET rsi == raw_rsi
       IN  \A i \in 1..Len(candles) :
               /\ rsi[i] # NaN <=> i > buy_params.rsi_period
               /\ rsi[i] # NaN => (rsi[i] >= 0 /\ rsi[i] <= 100 * Scale)
    /\ \A i \in 1..Len(candles) :
           frame.rsi[i] # NaN => (frame.rsi[i] >= 0 /\ frame.rsi[i] <= 100 * Scale)

\* a falling series that jumps: RSI is 0 on the first defined row and strictly
\* between 0 and 100 after the jump
C21_Witness ==
    /\ Len(candles) > feed.jump_at
    /\ feed.jump_at > buy_params.rsi_period
    /\ raw_rsi[buy_params.rsi_period + 1] = 0
    /\ \E i \in 1..Len(candles) : raw_rsi[i] # NaN /\ raw_rsi[i] > 0 /\ raw_rsi[i] < 100 * Scale

\* the smoothed average loss of calculate_rsi for the candles received
raw_avg_loss ==
    LET delta == diff(DataFrame(candles, has_date).close)
        loss == column([i \in 1..Len(delta) |-> IF delta[i] = NaN THEN NaN ELSE 0 - Min(delta[i], 0)])
    IN  ewm(loss, 1, buy_params.rsi_period, buy_params.rsi_period)

\* C22: RSI is 50 on every row where the smoothed average loss is 0 (a flat
\* or strictly rising close series).
C22_FiftyWhenNoLoss ==
    \A i \in 1..Len(candles) :
        (raw_avg_loss[i] # NaN /\ raw_avg_loss[i] = 0) => raw_rsi[i] = 50 * Scale

\* a flat or rising series past the warm-up: the average loss is 0 on a
\* defined row
C22_Witness ==
    /\ Len(candles) > buy_params.rsi_period
    /\ raw_avg_loss[Len(candles)] = 0
    /\ raw_rsi[Len(candles)] \in {0, 100 * Scale}

\* the atr column calculate_atr gives for the candles received, before any fill
raw_atr == calculate_atr(DataFrame(candles, has_date), buy_params.atr_period).atr

\* C23: ATR is >= 0 on every row where it is defined; it is defined from the
\* row that completes the first atr_period true ranges, and it lies between
\* the smallest and the largest true range seen so far.
C23_AtrNonNegative ==
    LET df == DataFrame(candles, has_date)
        atr == raw_atr
    IN  /\ \A i \in 1..Len(candles) :
               /\ atr[i] # NaN <=> i >= buy_params.atr_period
               /\ atr[i] # NaN =>
                      /\ atr[i] >= 0
                      /\ \E k \in 1..i : atr[i] <= true_range(df, k)
                      /\ \E k \in 1..i : atr[i] >= true_range(df, k) - 1
        /\ \A i \in 1..Len(candles) : frame.atr[i] # NaN => frame.atr[i] >= 0

\* a series with a jump past the warm-up: the true range of the jump candle
\* exceeds the ATR, which is positive
C23_Witness ==
    /\ Len(candles) > feed.jump_at
    /\ feed.jump_at > buy_params.atr_period
    /\ raw_atr[Len(candles)] > 0
    /\ true_range(DataFrame(candles, has_date), feed.jump_at) > raw_atr[feed.jump_at]

\* the EMA columns of the frame with their spans
ema_columns ==
    {<<"ema_fast", buy_params.ema_fast>>, <<"ema_slow", buy_params.ema_slow>>,
     <<"ema50", 50>>, <<"ema200", 200>>}

\* ema[0] = close[0], ema[i] = alpha * close[i] + (1 - alpha) * ema[i-1],
\* alpha = 2 / (span + 1)
ema_recurrence(ema, close, span) ==
    /\ Len(ema) = Len(close)
    /\ \A i \in 1..Len(close) :
           ema[i] = IF i = 1 THEN close[1]
                    ELSE ((span - 1) * ema[i - 1] + 2 * close[i]) \div (span + 1)

\* C24: the EMA columns have the length of the input and follow the
\* recurrence over close[0..i], and a candle appended to the series leaves
\* every earlier EMA value unchanged.
C24_EmaNoLookahead ==
    /\ [](\A c \in ema_columns :
              /\ Len(frame[c[1]]) = Len(candles)
              /\ ema_recurrence(frame[c[1]], DataFrame(candles, has_date).close, c[2]))
    /\ [][Len(candles') = Len(candles) + 1 =>
              \A c \in ema_columns : \A i \in 1..Len(candles) :
                  frame'[c[1]][i] = frame[c[1]][i]]_vars

\* a moving series long enough for the EMAs to have left the close: the fast
\* and the slow EMA differ from the close and from each other
C24_Witness ==
    /\ Len(candles) > feed.jump_at
    /\ feed.jump_at > 0
    /\ frame.ema_fast[Len(candles)] # frame.close[Len(candles)]
    /\ frame.ema_fast[Len(candles)] # frame.ema200[Len(candles)]
    /\ frame.ema_fast[feed.jump_at - 1] # frame.ema_fast[feed.jump_at]

\* the hour of day at which candle i opens
candle_hour(i) == dt_hour(candles[i].date)

\* C25: tradable_hour is 0 or 1 on every row, and 1 exactly when the candle's
\* hour h satisfies start_hour <= h <= end_hour.
C25_TradableHour ==
    strategy = "OptimizedIndicatorsStrategy" =>
        \A i \in 1..Len(candles) :
            /\ frame.tradable_hour[i] \in {0, 1}
            /\ frame.tradable_hour[i] = 1 <=> (6 <= candle_hour(i) /\ candle_hour(i) <= 22)

\* C25, frames that carry the candle times: the same statement where the
\* dataframe has a date column.
C25_TradableHourDated ==
    (strategy = "OptimizedIndicatorsStrategy" /\ has_date) =>
        \A i \in 1..Len(candles) :
            /\ frame.tradable_hour[i] \in {0, 1}
            /\ frame.tradable_hour[i] = 1 <=> (6 <= candle_hour(i) /\ candle_hour(i) <= 22)

\* a frame without candle times, passed at noon: a candle of hour 5 is marked
\* tradable
C25_Witness ==
    /\ strategy = "OptimizedIndicatorsStrategy"
    /\ ~has_date
    /\ Len(candles) >= 1
    /\ candle_hour(1) = 5
    /\ frame.tradable_hour[1] = 1

\* a dated frame that crosses the end of the window: the candles of hour 22
\* are tradable, the candle of hour 23 is not
C25_WitnessDated ==
    /\ strategy = "OptimizedIndicatorsStrategy"
    /\ has_date
    /\ Len(candles) >= 7
    /\ candle_hour(1) = 22 /\ frame.tradable_hour[1] = 1
    /\ candle_hour(7) = 23 /\ frame.tradable_hour[7] = 0

\* C26: on no bar of the frame of any strategy variant are enter_long and
\* enter_short both 1.
C26_EntriesExclusive ==
    \A i \in 1..Len(frame.close) :
        ~(Column(frame, "enter_long")[i] = 1 /\ Column(frame, "enter_short")[i] = 1)

\* the breakout variant enters short on the bar that falls through the lower
\* Donchian band, and the frame holds a bar inside the channel with no entry
C26_Witness ==
    /\ strategy = "ab_breakout-2025-08-10_15-41-40_NewsHeliusBitqueryML"
    /\ feed.entry_mode = "breakout"
    /\ \E i \in 1..Len(frame.close) : frame.enter_short[i] = 1 /\ frame.enter_long[i] = 0
    /\ \E i \in 1..Len(frame.close) :
           /\ frame.vol_ok[i] = 1
           /\ frame.enter_short[i] = 0 /\ frame.enter_long[i] = 0

\* C27: in NewsHeliusBitqueryML no bar carries enter_long = 1 together with
\* exit_long = 1, and none carries enter_short = 1 together with exit_short = 1.
C27_NoEntryWithExit ==
    strategy = "NewsHeliusBitqueryML" =>
        \A i \in 1..Len(frame.close) :
            /\ ~(frame.enter_long[i] = 1 /\ frame.exit_long[i] = 1)
            /\ ~(frame.enter_short[i] = 1 /\ frame.exit_short[i] = 1)

\* a rise, a decline of 22 candles and a new rise: on the bar where macd
\* crosses above its signal the RSI is between 45 and 50, and the bar carries
\* both the long entry and the long exit
C27_Witness ==
    /\ strategy = "NewsHeliusBitqueryML"
    /\ feed.bend_at > 0
    /\ \E i \in (feed.resume_at + 1)..Len(frame.close) :
           /\ frame.enter_long[i] = 1 /\ frame.exit_long[i] = 1
           /\ frame.macd[i] > frame.macd_sig[i]
           /\ frame.rsi[i] > 45 * Scale /\ frame.rsi[i] < 50 * Scale

\* C28: a train call that returns False leaves is_trained, last_training,
\* both classifiers and the scaler exactly as they were before the call.
C28_FailedTrainLeavesModel ==
    [][ml_op' = "train_failed" =>
          UNCHANGED <<is_trained, last_training, rf_model, gb_model, scaler>>]_vars

\* C28, the two flags: a train call that returns False leaves is_trained and
\* last_training as they were.
C28_FailedTrainKeepsFlags ==
    [][ml_op' = "train_failed" => UNCHANGED <<is_trained, last_training>>]_vars

\* a trained model whose later train call failed after the scaler was fitted
\* anew: predict answers "up" from the new scaler and an older classifier
C28_Witness ==
    /\ train_count >= 1
    /\ is_trained /\ Fitted
    /\ scaler # gb_model
    /\ prediction.called
    /\ prediction.signal = 1

\* the sub-queries of a Helius computation have all been answered
HeliusAnswered == source = "helius" /\ Len(call.resp) = SubQueries(source)

\* C29: the whale sub-score of Helius is 0 for every response, so the combined
\* score is within [-0.8, 0.8] and equals 0.4 * large_tx + 0.4 * dex, and the
\* signal returned is non-zero only when that sum alone exceeds 0.6 in
\* magnitude.
C29_WhaleScoreAlwaysZero ==
    HeliusAnswered =>
        LET s == hl_sub_scores(call.resp)
            two == s[1] * 40 + s[2] * 40
        IN  /\ s[3] = 0
            /\ hl_combined_signal(s) = two
            /\ hl_combined_signal(s) >= 0 - 8000 /\ hl_combined_signal(s) <= 8000
            /\ call.at = "returned" =>
                   /\ call.ret = 1 <=> two > HELIUS_SIGNAL_THRESHOLD
                   /\ call.ret = 0 - 1 <=> two < 0 - HELIUS_SIGNAL_THRESHOLD
                   /\ call.ret # 0 => (s[1] # 0 /\ s[2] # 0)

\* the three Helius queries were answered with one-sided volumes: the balances
\* query carries data, the whale score is 0 all the same, and the signal 1
\* comes from the two other scores at 0.4 + 0.4 = 0.8
C29_Witness ==
    /\ HeliusAnswered
    /\ call.at = "returned"
    /\ ~Failed(call.resp[3]) /\ call.resp[3].a > 0
    /\ hl_combined_signal(hl_sub_scores(call.resp)) = 8000
    /\ call.ret = 1

----------------------------------------------------------------------------
(* src/bot_monitor.py: BotMonitor *)

\* profit_ratio is kept in hundredths (0.10 is 10) and so is the drawdown,
\* rounded down

\* at most MaxTrades trades are closed in one run
MaxTrades == 5

\* the profit_ratio of a closed trade
ProfitRatios == {0 - 30, 0 - 5, 10, 50}

\* what check_bot_status may observe
BotStatuses == {"running", "stopped", "error"}

alert_thresholds == [max_drawdown |-> 0 - 10, consecutive_losses |-> 5, profit_threshold |-> 2]

\* SUM(profit_ratio) OVER (ORDER BY close_date): the row of the k-th closed trade
cumulative_profit(rows, k) == SumRange(rows, 1, k)

RECURSIVE drawdown_rows_Signed(_, _, _, _)
drawdown_rows_Signed(rows, k, peak, max_drawdown) ==
    IF k > Len(rows) THEN max_drawdown
    ELSE LET cum == cumulative_profit(rows, k)
         IN  IF cum > peak THEN drawdown_rows_Signed(rows, k + 1, cum, max_drawdown)
             ELSE LET drawdown == IF peak > 0 THEN ((cum - peak) * 100) \div peak ELSE 0
                  IN  drawdown_rows_Signed(rows, k + 1, peak, Min(max_drawdown, drawdown))

\* the loop of calculate_drawdown from row k on, with the peak and the
\* maximum so far
RECURSIVE drawdown_rows(_, _, _, _)
drawdown_rows(rows, k, peak, max_drawdown) ==
    IF k > Len(rows) THEN max_drawdown
    ELSE LET cum == cumulative_profit(rows, k)
         IN  IF cum > peak THEN drawdown_rows(rows, k + 1, cum, max_drawdown)
             ELSE LET drawdown == IF peak > 0 THEN ((peak - cum) * 100) \div peak ELSE 0
                  IN  drawdown_rows(rows, k + 1, peak, Max(max_drawdown, drawdown))

\* a drawdown reported as a negative fraction of the peak
calculate_drawdown_Signed(exists, rows) ==
    IF ~exists \/ rows = << >> THEN 0 ELSE drawdown_rows_Signed(rows, 1, 0, 0)

\* 0.0 without a database or without closed trades
calculate_drawdown(exists, rows) ==
    IF ~exists \/ rows = << >> THEN 0 ELSE drawdown_rows(rows, 1, 0, 0)

\* the keys of the statistics read by check_alerts; SUM over no row is NULL,
\* and "or 0" is applied to total_profit only; {} without a database
get_trade_statistics(exists, rows) ==
    IF ~exists THEN [empty |-> TRUE, losing_trades |-> 0, total_profit |-> 0]
    ELSE [empty |-> FALSE,
          losing_trades |-> IF rows = << >> THEN None
                            ELSE Cardinality({k \in 1..Len(rows) : rows[k] < 0}),
          total_profit |-> cumulative_profit(rows, Len(rows))]

\* the alerts of check_alerts; comparing None with the threshold raises, and
\* the alerts appended before it are returned
check_alerts(stats, exists, rows, status) ==
    LET drawdown == calculate_drawdown(exists, rows)
        critical == IF drawdown < alert_thresholds.max_drawdown THEN {"drawdown"} ELSE {}
        losing == IF stats.losing_trades >= alert_thresholds.consecutive_losses
                  THEN {"losing_trades"} ELSE {}
        profit == IF stats.total_profit < alert_thresholds.profit_threshold
                  THEN {"total_profit"} ELSE {}
        stopped == IF status # "running" THEN {"bot_status"} ELSE {}
    IN  IF stats.losing_trades = None THEN critical
        ELSE critical \cup losing \cup profit \cup stopped

\* the bot closes a trade; it has created the database by then
CloseTrade(p) ==
    /\ Len(trades) < MaxTrades
    /\ trades' = Append(trades, p)
    /\ db_exists' = TRUE
    /\ monitor_op' = "close"
    /\ UNCHANGED <<bot_status, alerts>>
    /\ UNCHANGED <<cacheVars, mlVars, guardVars, frameVars, requestVars>>

CheckBotStatus(s) ==
    /\ bot_status' = s
    /\ monitor_op' = "status"
    /\ UNCHANGED <<trades, db_exists, alerts>>
    /\ UNCHANGED <<cacheVars, mlVars, guardVars, frameVars, requestVars>>

\* get_trade_statistics and check_alerts, as generate_report and the
\* monitoring loop call them
CheckAlerts ==
    /\ alerts' = check_alerts(get_trade_statistics(db_exists, trades), db_exists, trades, bot_status)
    /\ monitor_op' = "alerts"
    /\ UNCHANGED <<trades, db_exists, bot_status>>
    /\ UNCHANGED <<cacheVars, mlVars, guardVars, frameVars, requestVars>>

MonitorInit ==
    /\ trades = << >>
    /\ db_exists \in BOOLEAN
    /\ bot_status = "unknown"
    /\ alerts = {}
    /\ monitor_op = "none"

MonitorIdle ==
    /\ trades = << >>
    /\ db_exists = FALSE
    /\ bot_status = "unknown"
    /\ alerts = {}
    /\ monitor_op = "none"

MonitorNext ==
    \/ \E p \in ProfitRatios : CloseTrade(p)
    \/ \E s \in BotStatuses : CheckBotStatus(s)
    \/ CheckAlerts

\* C30: calculate_drawdown is never negative, whatever the history of closed
\* trades, and so no check_alerts returns the critical-drawdown alert, which
\* needs a drawdown below the max_drawdown threshold of -0.1
C30_DrawdownNeverAlerts ==
    /\ calculate_drawdown(db_exists, trades) >= 0
    /\ "drawdown" \notin alerts

\* the alerts were checked on a history that has lost more than a tenth of
\* its peak
C30_Witness ==
    /\ monitor_op = "alerts"
    /\ calculate_drawdown(db_exists, trades) > 10
    /\ "drawdown" \notin alerts

----------------------------------------------------------------------------
Init ==
    /\ CacheInit
    /\ MLIdle
    /\ GuardIdle
    /\ StrategyIdle
    /\ RequestIdle
    /\ MonitorIdle

SeqNext ==
    \/ \E p \in Pairs(source) : GetSignal(p)
    \/ AdvanceClock

ConcNext ==
    \/ \E t \in Threads, p \in Pairs(source) : Enter(t, p)
    \/ \E t \in Threads : Finish(t)
    \/ AdvanceClock

\* sequential callers
Spec == Init /\ [][SeqNext]_vars

\* concurrent callers of one generator instance
SpecConc == Init /\ [][ConcNext]_vars

\* the MLModel: train, predict and the passing of time
MLSpecInit ==
    /\ CacheIdle
    /\ MLInit
    /\ GuardIdle
    /\ StrategyIdle
    /\ RequestIdle
    /\ MonitorIdle

SpecML == MLSpecInit /\ [][MLNext]_vars

\* the protections of one strategy over a run of trades
GuardSpecInit ==
    /\ CacheIdle
    /\ MLIdle
    /\ GuardInit
    /\ StrategyIdle
    /\ RequestIdle
    /\ MonitorIdle

SpecGuard == GuardSpecInit /\ [][GuardNext]_vars

\* one strategy's decision pass over a growing candle series
StrategySpecInit ==
    /\ CacheIdle
    /\ MLIdle
    /\ GuardIdle
    /\ StrategyInit
    /\ RequestIdle
    /\ MonitorIdle

SpecStrategy == StrategySpecInit /\ [][StrategyNext]_vars

\* the strategy variants run over their candle series
VariantSpecInit ==
    /\ CacheIdle
    /\ MLIdle
    /\ GuardIdle
    /\ VariantInit
    /\ RequestIdle
    /\ MonitorIdle

SpecVariants == VariantSpecInit /\ [][NewVariantCandle]_vars

\* the requests of the calls of one generator instance; time passes and the
\* call runs on, the endpoint owes no answer
RequestSpecInit ==
    /\ CacheInit
    /\ MLIdle
    /\ GuardIdle
    /\ StrategyIdle
    /\ RequestIdle
    /\ MonitorIdle

RequestFairness == WF_vars(Wait) /\ WF_vars(Expire) /\ WF_vars(Return)

SpecRequests == RequestSpecInit /\ [][RequestNext]_vars /\ RequestFairness

\* the monitor over a growing history of closed trades
MonitorSpecInit ==
    /\ CacheIdle
    /\ MLIdle
    /\ GuardIdle
    /\ StrategyIdle
    /\ RequestIdle
    /\ MonitorInit

SpecMonitor == MonitorSpecInit /\ [][MonitorNext]_vars

====
